---- MODULE Spec2Model ----
(***************************************************************************)
(* A model of the outflow boundary condition                               *)
(* (src/boundary_condition/outflow.py) and of the total-energy and         *)
(* potential-temperature source functions                                  *)
(* (src/swirl_lm/equations/source_function/).                              *)
(*                                                                         *)
(* Field values are exact rationals extended with +inf, -inf and nan, so   *)
(* that a tensor division by zero yields a value, as it does in the        *)
(* program, instead of stopping the evaluation.  Rounding is not modelled. *)
(***************************************************************************)
EXTENDS Integers, Sequences, FiniteSets, TLC

(***************************************************************************)
(* Bounds of the model.                                                    *)
(***************************************************************************)
\* number of z-slices of a field
NZ == 2
\* length of a slice along y
NY == 2
\* largest halo width tried
MaxHalo == 2

\* length of a slice along x: both halos and a core of two cells
NX == 2 * MaxHalo + 2

\* length along x of the slices the source functions are evaluated on
SX == 2

(***************************************************************************)
(* Extended rationals: [n, d] with d > 0 in lowest terms, or d = 0 and     *)
(* n = 1 (+inf), n = -1 (-inf), n = 0 (nan).                               *)
(***************************************************************************)
Abs(i) == IF i < 0 THEN -i ELSE i

Sign(i) == IF i < 0 THEN -1 ELSE IF i > 0 THEN 1 ELSE 0

RECURSIVE Gcd(_, _)
Gcd(a, b) == IF b = 0 THEN a ELSE Gcd(b, a % b)

Norm(n, d) ==
  IF d = 1 THEN [n |-> n, d |-> 1]
  ELSE IF d = 0 THEN [n |-> Sign(n), d |-> 0]
  ELSE LET g == Gcd(Abs(n), Abs(d))
           s == Sign(d)
       IN [n |-> s * (n \div g), d |-> s * (d \div g)]

R(i) == [n |-> i, d |-> 1]

RNaN == [n |-> 0, d |-> 0]

RIsFinite(a) == a.d # 0

RAdd(a, b) ==
  IF a.d = 0 /\ b.d = 0
  THEN (IF a = b THEN a ELSE RNaN)
  ELSE Norm(a.n * b.d + b.n * a.d, a.d * b.d)

RNeg(a) == [n |-> -a.n, d |-> a.d]

RSub(a, b) == RAdd(a, RNeg(b))

RMul(a, b) == Norm(a.n * b.n, a.d * b.d)

RRecip(a) == Norm(a.d, a.n)

RDiv(a, b) == RMul(a, RRecip(b))

RMax(a, b) ==
  IF a = RNaN \/ b = RNaN THEN RNaN
  ELSE IF a.n * b.d >= b.n * a.d THEN a ELSE b

(***************************************************************************)
(* Sequences.                                                              *)
(***************************************************************************)
\* the 1-based position of Python index i in a sequence of length len
PyIndex(len, i) == IF i < 0 THEN len + i + 1 ELSE i + 1

RECURSIVE Flatten(_)
Flatten(ss) == IF ss = <<>> THEN <<>> ELSE Head(ss) \o Flatten(Tail(ss))

RECURSIVE ReduceMax(_)
ReduceMax(s) ==
  IF Len(s) = 1 THEN s[1] ELSE RMax(s[1], ReduceMax(Tail(s)))

RECURSIVE ReduceSum(_)
ReduceSum(s) ==
  IF Len(s) = 1 THEN s[1] ELSE RAdd(s[1], ReduceSum(Tail(s)))

RECURSIVE SetToSeq(_)
SetToSeq(S) ==
  IF S = {} THEN <<>>
  ELSE LET m == CHOOSE x \in S : \A y \in S : x <= y
       IN <<m>> \o SetToSeq(S \ {m})

Range(f) == {f[x] : x \in DOMAIN f}

(***************************************************************************)
(* State.  The outflow update is called once per replica with that         *)
(* replica's local fields; the source functions are modelled further down. *)
(***************************************************************************)
VARIABLES
  replicas,           \* the 3D array of replica ids, replicas[i][j][k]
  params,             \* GridParametrization: dt, dx, halo_width
  states,             \* per replica: variable name -> field
  additional_states,  \* per replica: key -> boundary buffer
  result,             \* per replica: what get_boundary_update_fn returned
  reduced,            \* per replica: the values its collectives returned
  config,             \* per object: the arguments of its constructor
  obj,                \* per object: the constructed source-function object
  phi,                \* source_fn argument phi
  flow,               \* source_fn argument states
  helper,             \* source_fn argument additional_states
  cloud_gain,         \* what the Cloud collaborator's radiation returns
  out,                \* per object: what source_fn returned
  mparams,            \* the params the Monitor is constructed from
  monitor,            \* the Monitor object
  mstates,            \* compute_analytics argument states
  step,               \* the simulation step of the next call
  mout,               \* what the last Monitor call returned or raised
  mhist,              \* per analytics key: the statistics of the steps so far
  adjust              \* the saturation adjustment under way

outflowVars == <<replicas, params, states, additional_states, result, reduced>>

sourceVars == <<config, obj, phi, flow, helper, cloud_gain, out>>

monitorVars == <<mparams, monitor, mstates, step, mout, mhist>>

vars == <<replicas, params, states, additional_states, result, reduced,
          config, obj, phi, flow, helper, cloud_gain, out,
          mparams, monitor, mstates, step, mout, mhist, adjust>>

\* the Monitor is not in use
NoMonitor ==
  /\ mparams = <<>> /\ monitor = <<>> /\ mstates = <<>>
  /\ step = 0 /\ mout = <<>> /\ mhist = <<>>

\* no saturation adjustment is followed
NoAdjustment == adjust = <<>>

(***************************************************************************)
(* Names.  A key is the sequence of its characters.                        *)
(***************************************************************************)
WordChars ==
  {"a", "b", "c", "d", "e", "f", "g", "h", "i", "j", "k", "l", "m", "n", "o",
   "p", "q", "r", "s", "t", "u", "v", "w", "x", "y", "z", "T", "0", "1", "2",
   "3", "4", "5", "6", "7", "8", "9", "_"}

BcPrefix == <<"b", "c", "_">>

BcSuffix == <<"_", "0", "_", "1">>

KEY_U == <<"u">>

KEY_RHO == <<"r", "h", "o">>

KEY_T == <<"T">>

(***************************************************************************)
(* re.search(r'bc_(\w+)_0_1', key): the leftmost start at which the        *)
(* pattern matches, and there the longest group the greedy \w+ can keep.   *)
(***************************************************************************)
\* the positions at which the group may end for a match starting at i
GroupEnds(key, i) ==
  {j \in (i + 3)..(Len(key) - 4) :
     /\ SubSeq(key, i, i + 2) = BcPrefix
     /\ \A k \in (i + 3)..j : key[k] \in WordChars
     /\ SubSeq(key, j + 1, j + 4) = BcSuffix}

MatchStarts(key) == {i \in 1..Len(key) : GroupEnds(key, i) # {}}

Least(S) == CHOOSE x \in S : \A y \in S : x <= y

Greatest(S) == CHOOSE x \in S : \A y \in S : x >= y

re_search(key) == MatchStarts(key) # {}

\* re.split(r'bc_(\w+)_0_1', key)[1]: group 1 of the first match
re_split_1(key) ==
  LET i == Least(MatchStarts(key))
      j == Greatest(GroupEnds(key, i))
  IN SubSeq(key, i + 3, j)

\* 'bc_{}_0_1'.format(var_name)
bc_name(var_name) == BcPrefix \o var_name \o BcSuffix

(***************************************************************************)
(* The replica topology and the collective reduction.                      *)
(***************************************************************************)
ReplicaIds == {replicas[i][j][k] :
                 i \in 1..Len(replicas), j \in 1..Len(replicas[1]),
                 k \in 1..Len(replicas[1][1])}

\* np.array([np.reshape(replicas[i, :, :], -1) for i in range(shape[0])])
group_assignment ==
  [i \in 1..Len(replicas) |-> Flatten(replicas[i])]

\* the group of the assignment that replica r belongs to
GroupOf(ga, r) ==
  ga[CHOOSE i \in 1..Len(ga) : r \in Range(ga[i])]

\* the reduction operator `op` applied to a vector
ApplyOp(op, s) == IF op = "reduce_max" THEN ReduceMax(s) ELSE ReduceSum(s)

\* common_ops.global_reduce(x, op, group_assignment) as replica r sees it:
\* op over the locally reduced values of the replicas of r's group; x[m] is
\* the operand of replica m.
global_reduce(x, op, ga, r) ==
  LET g == GroupOf(ga, r)
  IN ApplyOp(op, [m \in 1..Len(g) |-> ApplyOp(op, x[g[m]])])

(***************************************************************************)
(* get_boundary_update_fn, as replica r evaluates it.                      *)
(***************************************************************************)
\* t[idx, :] of a slice, as rationals
RowAt(t, idx) ==
  LET row == t[PyIndex(Len(t), idx)]
  IN [y \in 1..Len(row) |-> R(row[y])]

\* tf.concat([u_i[-halo_width - 1, :] for u_i in states['u']], axis=0)
OutletU(m) ==
  LET u == states[m][KEY_U]
  IN Flatten([z \in 1..Len(u) |-> RowAt(u[z], -params.halo_width - 1)])

u_max(r) ==
  global_reduce([m \in ReplicaIds |-> OutletU(m)], "reduce_max",
                group_assignment, r)

\* mutant: the Courant number is clamped to [0, 1]
cfl_Clamped(r) ==
  LET c == RDiv(RMul(params.dt, u_max(r)), params.dx)
  IN IF c.n < 0 THEN R(0) ELSE IF c.n > c.d THEN R(1) ELSE c

cfl(r) == RDiv(RMul(params.dt, u_max(r)), params.dx)

\* mutant: the weight of the old value is c instead of 1 - c
coeff_NoComplement(r) == cfl(r)

coeff(r) == RSub(R(1), cfl(r))

\* tf.concat([rho_i[face, :] * u_i[face, :] for rho_i, u_i in zip(..)])
FaceFlux(m, face_index) ==
  LET rho == states[m][KEY_RHO]
      u == states[m][KEY_U]
      n == IF Len(rho) < Len(u) THEN Len(rho) ELSE Len(u)
  IN Flatten([z \in 1..n |->
       LET a == RowAt(rho[z], face_index)
           b == RowAt(u[z], face_index)
       IN [y \in 1..Len(a) |-> RMul(a[y], b[y])]])

mass_flux_x_face(r, face_index) ==
  global_reduce([m \in ReplicaIds |-> FaceFlux(m, face_index)], "reduce_sum",
                group_assignment, r)

mass_exit(r) == mass_flux_x_face(r, -params.halo_width - 1)

mass_inlet(r) == mass_flux_x_face(r, params.halo_width)

mass_correction(r) == RDiv(mass_inlet(r), mass_exit(r))

\* mutant: every variable is rescaled by the mass-flux ratio
correction_factor_AllVars(r, var_name) == mass_correction(r)

correction_factor(r, var_name) ==
  IF var_name = KEY_U THEN mass_correction(r) ELSE R(1)

\* one slice of the updated buffer
UpwindSlice(r, var_name, u_j, u_j_1) ==
  LET up == RowAt(u_j_1, -params.halo_width - 1)
  IN [y \in 1..Len(u_j) |->
        RMul(correction_factor(r, var_name),
             RAdd(RMul(coeff(r), R(u_j[y])),
                  RMul(RSub(R(1), coeff(r)), up[y])))]

update_boundary_values(r, var_name) ==
  LET buf == additional_states[r][bc_name(var_name)]
      fld == states[r][var_name]
      n == IF Len(buf) < Len(fld) THEN Len(buf) ELSE Len(fld)
  IN [z \in 1..n |-> UpwindSlice(r, var_name, buf[z], fld[z])]

\* a call common_ops.global_reduce(x, op, group_assignment) by replica r
Reduce(op, r) == [op |-> op, group |-> GroupOf(group_assignment, r)]

\* mutant: a replica with nothing flowing out skips the flux reductions
OutflowCollectives_SkipAtRest(r) ==
  IF KEY_U \notin DOMAIN states[r] THEN <<>>
  ELSE <<Reduce("reduce_max", r)>>
       \o (IF KEY_RHO \notin DOMAIN states[r]
              \/ ReduceMax(OutletU(r)).n <= 0
           THEN <<>>
           ELSE <<Reduce("reduce_sum", r), Reduce("reduce_sum", r)>>)

\* the global_reduce calls replica r issues, in order: u_max, mass_exit and
\* mass_inlet; a missing states['u'] or states['rho'] raises before the call
OutflowCollectives(r) ==
  IF KEY_U \notin DOMAIN states[r] THEN <<>>
  ELSE <<Reduce("reduce_max", r)>>
       \o (IF KEY_RHO \notin DOMAIN states[r] THEN <<>>
           ELSE <<Reduce("reduce_sum", r), Reduce("reduce_sum", r)>>)

\* a lookup of the update raises KeyError
RaisesKeyError(r) ==
  \/ KEY_U \notin DOMAIN states[r]
  \/ KEY_RHO \notin DOMAIN states[r]
  \/ \E key \in DOMAIN additional_states[r] :
       /\ re_search(key)
       /\ \/ bc_name(re_split_1(key)) \notin DOMAIN additional_states[r]
          \/ re_split_1(key) \notin DOMAIN states[r]

\* mutant: the keys without a match are left out of the returned map
get_boundary_update_fn_MatchedOnly(r) ==
  IF RaisesKeyError(r)
  THEN [status |-> "KeyError", value |-> <<>>]
  ELSE [status |-> "returned",
        value |-> [key \in {k \in DOMAIN additional_states[r] : re_search(k)} |->
                     update_boundary_values(r, re_split_1(key))]]

get_boundary_update_fn(r) ==
  IF RaisesKeyError(r)
  THEN [status |-> "KeyError", value |-> <<>>]
  ELSE [status |-> "returned",
        value |-> [key \in DOMAIN additional_states[r] |->
                     IF re_search(key)
                     THEN update_boundary_values(r, re_split_1(key))
                     ELSE additional_states[r][key]]]

(***************************************************************************)
(* Inputs of the outflow update.                                           *)
(***************************************************************************)
\* replica topologies of shape (1,1,1), (2,1,1) and (1,2,1)
Topologies ==
  { << << <<0>> >> >>,
    << << <<0>> >>, << <<1>> >> >>,
    << << <<0>>, <<1>> >> >> }

\* a field: NZ slices of NX rows of NY values
Fixture(k, a, b) ==
  [z \in 1..NZ |-> [x \in 1..NX |-> [y \in 1..NY |-> k + a * x + b * (z - y)]]]

\* the last seed makes every velocity on the outlet row negative
USeeds ==
  [k : {-1, 0, 1}, a : {0, 1}, b : {-1, 1}] \cup {[k |-> -5, a |-> 0, b |-> 1]}

RhoSeeds == {[k |-> 1, a |-> 0, b |-> 0], [k |-> 1, a |-> 1, b |-> 0]}

\* (dt, dx)
TimeSteps ==
  { <<[n |-> 1, d |-> 4], R(1)>>, <<R(1), R(2)>>, <<R(1), R(1)>> }

\* a boundary buffer: NZ slices of NY values
Buffer(k) == [z \in 1..NZ |-> [y \in 1..NY |-> k + 2 * z + 3 * y]]

K_bc_u == <<"b", "c", "_", "u", "_", "0", "_", "1">>

K_bc_T == <<"b", "c", "_", "T", "_", "0", "_", "1">>

K_bc_q == <<"b", "c", "_", "q", "_", "0", "_", "1">>

K_nu_t == <<"n", "u", "_", "t">>

K_bc_u_0_10 == <<"b", "c", "_", "u", "_", "0", "_", "1", "0">>

K_xbc_T == <<"x", "b", "c", "_", "T", "_", "0", "_", "1">>

K_bc_u_1_0_1 == <<"b", "c", "_", "u", "_", "1", "_", "0", "_", "1">>

K_bc_u_0_1_0_1 == <<"b", "c", "_", "u", "_", "0", "_", "1", "_", "0", "_", "1">>

K_bc_u_0_0 == <<"b", "c", "_", "u", "_", "0", "_", "0">>

K_bc_dash == <<"b", "c", "_", "u", "-", "T", "_", "0", "_", "1">>

KeySets ==
  { {K_bc_u, K_bc_T, K_nu_t},
    {K_bc_u},
    {K_bc_T, K_nu_t},
    {K_bc_u, K_bc_u_0_10},
    {K_bc_u, K_bc_T, K_xbc_T},
    {K_bc_u_1_0_1, K_nu_t},
    {K_bc_u_0_10},
    {K_bc_q, K_bc_T},
    {K_bc_u_0_0, K_bc_dash, K_nu_t},
    {K_bc_u, K_bc_u_0_1_0_1} }

Pending == [status |-> "pending", value |-> <<>>]

NotReduced ==
  [done |-> FALSE, u_max |-> R(0), mass_exit |-> R(0), mass_inlet |-> R(0),
   collectives |-> <<>>]

InitOutflow ==
  \E topo \in Topologies, hw \in 1..MaxHalo, t \in TimeSteps,
     su \in USeeds, sr \in RhoSeeds, ks \in KeySets :
    /\ replicas = topo
    /\ params = [dt |-> t[1], dx |-> t[2], halo_width |-> hw]
    /\ states =
         [m \in ReplicaIds |->
            (KEY_U :> Fixture(su.k + 2 * m, su.a, su.b))
            @@ (KEY_RHO :> Fixture(sr.k + m, sr.a, sr.b))
            @@ (KEY_T :> Fixture(3 + m, 1, 1))]
    /\ additional_states =
         [m \in ReplicaIds |-> [key \in ks |-> Buffer(Len(key) + m)]]
    /\ result = [m \in ReplicaIds |-> Pending]
    /\ reduced = [m \in ReplicaIds |-> NotReduced]
    /\ config = <<>> /\ obj = <<>> /\ phi = <<>> /\ flow = <<>>
    /\ helper = <<>> /\ cloud_gain = 0 /\ out = <<>>
    /\ NoMonitor
    /\ NoAdjustment

(***************************************************************************)
(* Replica r calls the update function.                                    *)
(***************************************************************************)
Update(r) ==
  /\ result[r].status = "pending"
  /\ result' = [result EXCEPT ![r] = get_boundary_update_fn(r)]
  /\ reduced' = [reduced EXCEPT ![r] =
                   [done |-> TRUE, u_max |-> u_max(r),
                    mass_exit |-> mass_exit(r), mass_inlet |-> mass_inlet(r),
                    collectives |-> OutflowCollectives(r)]]
  /\ UNCHANGED <<replicas, params, states, additional_states>>
  /\ UNCHANGED sourceVars
  /\ UNCHANGED monitorVars
  /\ UNCHANGED adjust

NextOutflow == \E r \in ReplicaIds : Update(r)

OutflowSpec == InitOutflow /\ [][NextOutflow]_vars

(***************************************************************************)
(* Properties of the outflow update.  The definitions below restate the    *)
(* expected values directly from the input fields, on 1-based indices.     *)
(***************************************************************************)
RECURSIVE IntSum(_)
IntSum(s) == IF s = <<>> THEN 0 ELSE Head(s) + IntSum(Tail(s))

\* the key is bc_<var>_0_1 for a variable name <var> of word characters
ExactForm(key) ==
  /\ Len(key) >= 8
  /\ SubSeq(key, 1, 3) = <<"b", "c", "_">>
  /\ SubSeq(key, Len(key) - 3, Len(key)) = <<"_", "0", "_", "1">>
  /\ \A k \in 4..(Len(key) - 4) : key[k] \in WordChars

VarOf(key) == SubSeq(key, 4, Len(key) - 4)

\* some substring of the key is of that form
ContainsPattern(key) ==
  \E a \in 1..Len(key), b \in 1..Len(key) :
    a <= b /\ ExactForm(SubSeq(key, a, b))

SingleReplica == Cardinality(ReplicaIds) = 1

\* the 1-based rows of the faces at x-index halo_width and -halo_width-1
InletRow == params.halo_width + 1

OutletRow == NX - params.halo_width

\* rho*u summed over row x of all slices of replica m
FaceFluxInt(m, x) ==
  IntSum(Flatten([z \in 1..NZ |->
    [y \in 1..NY |->
       states[m][KEY_RHO][z][x][y] * states[m][KEY_U][z][x][y]]]))

OutletMaxInt(m) ==
  Greatest({states[m][KEY_U][z][OutletRow][y] : z \in 1..NZ, y \in 1..NY})

\* (1-c)*old + c*upstream at slice z, position y of the buffer of `key`
ExpectedUpwind(m, key, c, z, y) ==
  RAdd(RMul(RSub(R(1), c), R(additional_states[m][key][z][y])),
       RMul(c, R(states[m][VarOf(key)][z][OutletRow][y])))

\* C1: on a single replica every returned bc_<var>_0_1 entry is, in every
\* slice, (1-c)*old + c*upstream with c = dt*u_max/dx and u_max the maximum
\* of u on the outlet row over all slices; for u that value is multiplied
\* by the mass-flux correction the update computed.
C1_UpwindUpdate ==
  \A r \in ReplicaIds :
    (SingleReplica /\ result[r].status = "returned") =>
      \A key \in DOMAIN additional_states[r] :
        ExactForm(key) =>
          \A z \in 1..NZ, y \in 1..NY :
            LET c == RDiv(RMul(params.dt, R(OutletMaxInt(r))), params.dx)
                e == ExpectedUpwind(r, key, c, z, y)
            IN result[r].value[key][z][y] =
                 IF VarOf(key) = <<"u">>
                 THEN RMul(RDiv(reduced[r].mass_inlet, reduced[r].mass_exit), e)
                 ELSE e

C1_Witness ==
  \E r \in ReplicaIds :
    /\ SingleReplica
    /\ result[r].status = "returned"
    /\ K_bc_T \in DOMAIN additional_states[r]
    /\ K_bc_u \in DOMAIN additional_states[r]
    /\ OutletMaxInt(r) > 0
    /\ cfl(r) \notin {R(0), R(1)}
    /\ \E z \in 1..NZ, y \in 1..NY :
         /\ states[r][KEY_U][z][OutletRow][y] < OutletMaxInt(r)
         /\ result[r].value[K_bc_T][z][y] # R(additional_states[r][K_bc_T][z][y])

\* C2: on a single replica the returned bc_u_0_1 is r times the uncorrected
\* upwind value, r the ratio of the rho*u sums on the inlet and outlet rows;
\* every other variable gets the uncorrected value itself.
C2_MassFluxCorrection ==
  \A m \in ReplicaIds :
    (SingleReplica /\ result[m].status = "returned") =>
      \A key \in DOMAIN additional_states[m] :
        ExactForm(key) =>
          \A z \in 1..NZ, y \in 1..NY :
            LET ratio == Norm(FaceFluxInt(m, InletRow), FaceFluxInt(m, OutletRow))
                c == RDiv(RMul(params.dt, reduced[m].u_max), params.dx)
                uncorrected == ExpectedUpwind(m, key, c, z, y)
            IN /\ VarOf(key) = <<"u">> =>
                    result[m].value[key][z][y] = RMul(ratio, uncorrected)
               /\ VarOf(key) # <<"u">> =>
                    result[m].value[key][z][y] = uncorrected

C2_Witness ==
  \E m \in ReplicaIds :
    /\ SingleReplica
    /\ result[m].status = "returned"
    /\ {K_bc_u, K_bc_T} \subseteq DOMAIN additional_states[m]
    /\ FaceFluxInt(m, OutletRow) # 0
    /\ FaceFluxInt(m, InletRow) # 0
    /\ FaceFluxInt(m, InletRow) # FaceFluxInt(m, OutletRow)
    /\ \E z \in 1..NZ, y \in 1..NY :
         result[m].value[K_bc_u][z][y] #
           ExpectedUpwind(m, K_bc_u, cfl(m), z, y)

\* the replicas holding the domain's inlet face and its outlet face
InletOwners == Range(Flatten(replicas[1]))

OutletOwners == Range(Flatten(replicas[Len(replicas)]))

DomainInletFlux ==
  IntSum([i \in 1..Cardinality(InletOwners) |->
            FaceFluxInt(SetToSeq(InletOwners)[i], InletRow)])

DomainOutletFlux ==
  IntSum([i \in 1..Cardinality(OutletOwners) |->
            FaceFluxInt(SetToSeq(OutletOwners)[i], OutletRow)])

DomainOutletMax == Greatest({OutletMaxInt(m) : m \in OutletOwners})

\* C3: for every topology, a replica that owns the outlet face uses the
\* maximum of u over the whole domain outlet face and the rho*u sums over
\* the whole domain inlet face and the whole domain outlet face.
C3_DomainFaces ==
  \A r \in OutletOwners :
    reduced[r].done =>
      /\ reduced[r].u_max = R(DomainOutletMax)
      /\ reduced[r].mass_exit = R(DomainOutletFlux)
      /\ reduced[r].mass_inlet = R(DomainInletFlux)

\* C4: only keys of the form bc_<var>_0_1 are updated; any other key keeps
\* its value, and a lookup fails only for such a key whose variable is not
\* in states.
C4_ExactKeysOnly ==
  \A r \in ReplicaIds :
    /\ result[r].status = "returned" =>
         \A key \in DOMAIN additional_states[r] :
           ~ExactForm(key) => result[r].value[key] = additional_states[r][key]
    /\ result[r].status = "KeyError" =>
         \E key \in DOMAIN additional_states[r] :
           ExactForm(key) /\ VarOf(key) \notin DOMAIN states[r]

\* C5 (state part): a returned map has the keys of additional_states and
\* maps every key in which the pattern does not occur to its input value.
C5_Returned ==
  \A r \in ReplicaIds :
    result[r].status = "returned" =>
      /\ DOMAIN result[r].value = DOMAIN additional_states[r]
      /\ \A key \in DOMAIN additional_states[r] :
           ~ContainsPattern(key) =>
             result[r].value[key] = additional_states[r][key]

Eager(f) == IF f = f THEN f ELSE f

zeros_like_Ones(f) ==
  Eager([z \in 1..Len(f) |-> [x \in 1..Len(f[z]) |->
       [y \in 1..Len(f[z][x]) |-> R(1)]]])

zeros_like(f) ==
  Eager([z \in 1..Len(f) |-> [x \in 1..Len(f[z]) |->
       [y \in 1..Len(f[z][x]) |-> R(0)]]])

FAdd(f, g) ==
  Eager([z \in 1..Len(f) |-> [x \in 1..Len(f[z]) |->
       [y \in 1..Len(f[z][x]) |-> RAdd(f[z][x][y], g[z][x][y])]]])

FSub(f, g) ==
  Eager([z \in 1..Len(f) |-> [x \in 1..Len(f[z]) |->
       [y \in 1..Len(f[z][x]) |-> RSub(f[z][x][y], g[z][x][y])]]])

FMul(f, g) ==
  Eager([z \in 1..Len(f) |-> [x \in 1..Len(f[z]) |->
       [y \in 1..Len(f[z][x]) |-> RMul(f[z][x][y], g[z][x][y])]]])

FNeg(f) ==
  Eager([z \in 1..Len(f) |-> [x \in 1..Len(f[z]) |->
       [y \in 1..Len(f[z][x]) |-> RNeg(f[z][x][y])]]])

\* every element times the scalar c
FScale(c, f) ==
  Eager([z \in 1..Len(f) |-> [x \in 1..Len(f[z]) |->
       [y \in 1..Len(f[z][x]) |-> RMul(c, f[z][x][y])]]])

\* every element plus the scalar c
FShift(c, f) ==
  Eager([z \in 1..Len(f) |-> [x \in 1..Len(f[z]) |->
       [y \in 1..Len(f[z][x]) |-> RAdd(c, f[z][x][y])]]])

\* tf.nest.map_structure(tf.math.reciprocal, f)
FRecip(f) ==
  Eager([z \in 1..Len(f) |-> [x \in 1..Len(f[z]) |->
       [y \in 1..Len(f[z][x]) |-> RRecip(f[z][x][y])]]])

(***************************************************************************)
(* Collaborators of the source functions.  Their code is outside the       *)
(* files modelled here; each is a fixed function of its arguments.         *)
(***************************************************************************)
\* f at (z, x, y), zero outside the field
At(f, z, x, y) ==
  IF /\ z \in 1..Len(f)
     /\ x \in 1..Len(f[1])
     /\ y \in 1..Len(f[1][1])
  THEN f[z][x][y]
  ELSE R(0)

\* the central-difference kernels kDx, kDy, kDz (axis 0, 1, 2)
apply_kernel_op(f, axis) ==
  Eager([z \in 1..Len(f) |-> [x \in 1..Len(f[z]) |->
       [y \in 1..Len(f[z][x]) |->
          IF axis = 0 THEN RSub(At(f, z, x + 1, y), At(f, z, x - 1, y))
          ELSE IF axis = 1 THEN RSub(At(f, z, x, y + 1), At(f, z, x, y - 1))
          ELSE RSub(At(f, z + 1, x, y), At(f, z - 1, x, y))]]])

\* the derivative along `axis` on a grid of spacing h
Derivative(f, axis, h) ==
  FScale(RRecip(RMul(R(2), h)), apply_kernel_op(f, axis))

\* calculus.divergence(kernel_op, terms, h)
divergence(terms, h) ==
  FAdd(FAdd(Derivative(terms[1], 0, h[1]), Derivative(terms[2], 1, h[2])),
       Derivative(terms[3], 2, h[3]))

\* eq_utils.shear_stress(kernel_op, mu, h0, h1, h2, u, v, w): the entry
\* tau[i][j] is the key 'xx', 'xy', ... of the returned dictionary
shear_stress(mu, h, u, v, w) ==
  LET vel == <<u, v, w>>
  IN [i \in 1..3 |-> [j \in 1..3 |->
        FMul(mu, FAdd(Derivative(vel[i], j - 1, h[j]),
                      Derivative(vel[j], i - 1, h[i])))]]

\* eq_utils.source_by_subsidence_velocity(kernel_op, rho, zz, h, field, g_dim)
source_by_subsidence_velocity(rho, zz, h, field, g_dim) ==
  FNeg(FMul(zz, Derivative(FMul(rho, field), g_dim, h)))

\* Cloud.source_by_radiation(q_l, rho, zz, h, g_dim, halos, replica_id, replicas)
source_by_radiation(q_l, rho, zz, h, g_dim) ==
  FScale(R(cloud_gain), FShift(R(1), FAdd(q_l, FMul(rho, zz))))

\* thermodynamics.model.internal_energy_from_total_energy(e_t, u, v, w, zz)
internal_energy_from_total_energy(e_t, u, v, w, zz) ==
  FSub(FSub(e_t, FAdd(FAdd(FMul(u, u), FMul(v, v)), FMul(w, w))), zz)

\* thermodynamics.model.saturation_adjustment(name, value, rho, q_t, ...)
saturation_adjustment(name, value, rho, q_t) ==
  FShift(R(IF name = "e_int" THEN 0 ELSE IF name = "theta" THEN 1 ELSE 2),
         FAdd(value, FAdd(FScale(R(2), rho), FScale(R(3), q_t))))

\* thermodynamics.model.potential_temperatures(T, q_t, rho, zz, ...)['theta']
potential_temperatures(temperature, q_t, rho, zz) ==
  FAdd(FAdd(temperature, zz), FSub(rho, q_t))

\* thermodynamics.model.total_enthalpy(e_t, rho, q_t, T)
total_enthalpy(e_t, rho, q_t, temperature) ==
  FAdd(FAdd(e_t, temperature), FMul(rho, q_t))

\* thermodynamics.model.equilibrium_phase_partition(T, rho, q_t): (q_l, q_i)
equilibrium_phase_partition(temperature, rho, q_t) ==
  <<FAdd(q_t, temperature), FSub(q_t, rho)>>

\* thermodynamics.model.cp_m(q_t, q_l, q_i)
cp_m(q_t, q_l, q_i) ==
  FShift(R(1), FAdd(FMul(q_t, q_t), FAdd(FMul(q_l, q_l), FMul(q_i, q_i))))

\* thermodynamics.model.exner_inverse(rho, q_t, T, zz)
exner_inverse(rho, q_t, temperature, zz) ==
  FShift(R(1), FAdd(FAdd(rho, q_t), FAdd(temperature, zz)))

\* thermodynamics.model.internal_energy_components(T): (e_v, e_l, e_i)
internal_energy_components(temperature) ==
  <<FShift(R(3), temperature), FShift(R(2), temperature),
    FShift(R(1), temperature)>>

\* thermodynamics.model.saturation_excess(T, rho, q_t)
saturation_excess(temperature, rho, q_t) ==
  FSub(q_t, FMul(rho, temperature))

\* microphysics.autoconversion_and_accretion(q_r, q_l)
autoconversion_and_accretion(q_r, q_l) == FAdd(q_r, FScale(R(2), q_l))

\* microphysics.evaporation(rho, T, q_r, q_v, q_l, q_c)
evaporation(rho, temperature, q_r, q_v, q_l, q_c) ==
  FAdd(FAdd(FMul(rho, q_r), q_v), FSub(FAdd(temperature, q_l), q_c))

\* constants.G
G == [n |-> 981, d |-> 100]

(***************************************************************************)
(* Construction.  g_dim is <<>> for None and <<d>> for the axis d.         *)
(***************************************************************************)
TOTAL_ENERGY_VARNAME == "e_t"

_POTENTIAL_TEMPERATURE_VARNAME == {"theta", "theta_li"}

\* ScalarGeneric.__init__(kernel_op, params, scalar_name, thermodynamics)
ScalarGeneric_init(c) ==
  [status |-> IF c.configured THEN "constructed" ELSE "ConfigurationError", cls |-> c.cls, scalar_name |-> c.scalar_name,
   model |-> c.model, g_dim |-> c.g_dim, h |-> c.h, nu |-> c.nu,
   use_sgs |-> c.use_sgs, halo_width |-> c.halo_width,
   include_radiation |-> FALSE, include_subsidence |-> FALSE,
   include_precipitation |-> FALSE,
   cloud |-> "unset", microphysics |-> "unset"]

\* a term is on whenever there is a gravity axis
IncludeFlag_AxisOnly(c, flag) == c.g_dim # <<>>

\* HasField(<record>) and <record>.<flag> and self._g_dim is not None
IncludeFlag(c, flag) == c.has_field /\ flag /\ c.g_dim # <<>>

TotalEnergy_init_NoWaterCheck(c) ==
  LET self == ScalarGeneric_init(c)
  IN IF self.status # "constructed" THEN self
     ELSE IF c.scalar_name # TOTAL_ENERGY_VARNAME
     THEN [self EXCEPT !.status = "AssertionError"]
     ELSE [self EXCEPT !.status = "constructed", !.cloud = "None",
                       !.microphysics = "None"]

TotalEnergy_init(c) ==
  LET self == ScalarGeneric_init(c)
      flagged == [self EXCEPT
                    !.include_radiation = IncludeFlag(c, c.include_radiation),
                    !.include_subsidence = IncludeFlag(c, c.include_subsidence),
                    !.include_precipitation =
                       IncludeFlag(c, c.include_precipitation)]
  IN IF self.status # "constructed" THEN self
     ELSE IF c.scalar_name # TOTAL_ENERGY_VARNAME
     THEN [self EXCEPT !.status = "AssertionError"]
     ELSE IF c.model = "water"
     THEN [flagged EXCEPT !.status = "constructed", !.cloud = "Cloud",
                          !.microphysics = "MicrophysicsKW1978"]
     ELSE [flagged EXCEPT !.status = "ValueError", !.cloud = "None",
                          !.microphysics = "None"]

PotentialTemperature_init_WaterOnly(c) ==
  LET self == ScalarGeneric_init(c)
  IN IF self.status # "constructed" THEN self
     ELSE IF c.scalar_name \notin _POTENTIAL_TEMPERATURE_VARNAME
     THEN [self EXCEPT !.status = "AssertionError"]
     ELSE IF c.model # "water"
     THEN [self EXCEPT !.status = "ValueError"]
     ELSE [self EXCEPT !.status = "constructed", !.cloud = "Cloud",
                       !.microphysics = "MicrophysicsKW1978"]

PotentialTemperature_init(c) ==
  LET self == ScalarGeneric_init(c)
      water == c.model = "water"
  IN IF self.status # "constructed" THEN self
     ELSE IF c.scalar_name \notin _POTENTIAL_TEMPERATURE_VARNAME
     THEN [self EXCEPT !.status = "AssertionError"]
     ELSE [self EXCEPT
             !.status = "constructed",
             !.microphysics = IF water THEN "MicrophysicsKW1978" ELSE "None",
             !.cloud = IF water THEN "Cloud" ELSE "None",
             !.include_radiation = IncludeFlag(c, c.include_radiation),
             !.include_subsidence = IncludeFlag(c, c.include_subsidence)]

(***************************************************************************)
(* source_fn.  A call returns [status, value, calls, reads]: the field     *)
(* returned (or the exception raised), the collaborator calls made, in     *)
(* order, each with its main field argument, and the keys looked up in     *)
(* states.                                                                 *)
(***************************************************************************)
Call(fn, arg) == [fn |-> fn, arg |-> arg]

\* additional_states.get('zz', tf.nest.map_structure(tf.zeros_like, phi))
GetZz(p, ad) == IF "zz" \in DOMAIN ad THEN ad["zz"] ELSE zeros_like(p)

\* lines 123-134: the temperature given in additional_states, or else the
\* saturation adjustment of the internal energy
Temperature(p, st, ad, zz) ==
  IF "T" \in DOMAIN ad THEN ad["T"]
  ELSE saturation_adjustment(
         "e_int",
         internal_energy_from_total_energy(p, st["u"], st["v"], st["w"], zz),
         st["rho_thermal"], st["q_t"])

\* lines 140-145
Theta(st, ad, zz, temperature) ==
  IF "theta" \in DOMAIN ad THEN ad["theta"]
  ELSE potential_temperatures(temperature, st["q_t"], st["rho_thermal"], zz)

ThermodynamicCalls(p, st, ad, zz, temperature) ==
  (IF "T" \in DOMAIN ad THEN <<>>
   ELSE <<Call("internal_energy_from_total_energy", p),
          Call("saturation_adjustment",
               internal_energy_from_total_energy(p, st["u"], st["v"],
                                                 st["w"], zz))>>)
  \o (IF "theta" \in DOMAIN ad THEN <<>>
      ELSE <<Call("potential_temperatures", temperature)>>)
  \o <<Call("total_enthalpy", p)>>

\* lines 147-159: the dictionary returned
ThermodynamicStates(p, st, ad, zz, temperature) ==
  [e_t |-> p, q_t |-> st["q_t"], zz |-> zz, T |-> temperature,
   theta |-> Theta(st, ad, zz, temperature),
   h_t |-> total_enthalpy(p, st["rho_thermal"], st["q_t"], temperature),
   calls |-> ThermodynamicCalls(p, st, ad, zz, temperature),
   reads |-> {"q_t", "rho_thermal"}
             \cup (IF "T" \in DOMAIN ad THEN {} ELSE {"u", "v", "w"})]

TotalEnergy_get_thermodynamic_variables(self, p, st, ad) ==
  ThermodynamicStates(p, st, ad, GetZz(p, ad),
                      Temperature(p, st, ad, GetZz(p, ad)))

\* lambda div_term_i, rho_i, f_r_i: div_term_i - rho_i * f_r_i
RadiationTerm_NoFlux(div_term, rho, f_r) == FSub(div_term, rho)

RadiationTerm(div_term, rho, f_r) == FSub(div_term, FMul(rho, f_r))

\* compute_rho_u_tau(tau_0j, tau_1j, tau_2j)
compute_rho_u_tau(st, tau_0j, tau_1j, tau_2j) ==
  FAdd(FAdd(FMul(st["u"], tau_0j), FMul(st["v"], tau_1j)),
       FMul(st["w"], tau_2j))

\* lines 250-257
Viscosity(self, st, ad) ==
  IF self.use_sgs
  THEN FMul(FShift(self.nu, ad["nu_t"]), st["rho"])
  ELSE FScale(self.nu, st["rho"])

\* lines 300-304
RhoUTau(st, tau) ==
  <<compute_rho_u_tau(st, tau[1][1], tau[2][1], tau[3][1]),
    compute_rho_u_tau(st, tau[1][2], tau[2][2], tau[3][2]),
    compute_rho_u_tau(st, tau[1][3], tau[2][3], tau[3][3])>>

\* the radiation correction on every component
DivTerms_EveryComponent(self, st, rho_u_tau, f_r) ==
  IF self.include_radiation
  THEN [i \in 1..3 |-> RadiationTerm(rho_u_tau[i], st["rho"], f_r)]
  ELSE rho_u_tau

\* lines 305-331: the terms whose divergence is taken
DivTerms(self, st, rho_u_tau, f_r) ==
  IF self.include_radiation
  THEN [rho_u_tau EXCEPT ![self.g_dim[1] + 1] =
          RadiationTerm(@, st["rho"], f_r)]
  ELSE rho_u_tau

\* the subsidence term of the transported variable itself
WithSubsidence_OfPhi(self, st, thermo_states, source) ==
  IF self.include_subsidence
  THEN FAdd(source,
            source_by_subsidence_velocity(
              st["rho"], thermo_states.zz, self.h[self.g_dim[1] + 1],
              thermo_states.e_t, self.g_dim[1]))
  ELSE source

\* the subsidence term with the wrong sign
WithSubsidence_Subtracted(self, st, thermo_states, source) ==
  IF self.include_subsidence
  THEN FSub(source,
            source_by_subsidence_velocity(
              st["rho"], thermo_states.zz, self.h[self.g_dim[1] + 1],
              thermo_states.h_t, self.g_dim[1]))
  ELSE source

\* lines 334-343
WithSubsidence(self, st, thermo_states, source) ==
  IF self.include_subsidence
  THEN FAdd(source,
            source_by_subsidence_velocity(
              st["rho"], thermo_states.zz, self.h[self.g_dim[1] + 1],
              thermo_states.h_t, self.g_dim[1]))
  ELSE source

\* lines 370-372: (e + pe) * rho * (-c_lv)
SourceV(st, e_v, pe, rain_water_evaporation_rate) ==
  FMul(FMul(FAdd(e_v, pe), st["rho"]), FNeg(rain_water_evaporation_rate))

\* lines 373-375: (e + pe) * rho * c_lr
SourceL(st, e_l, pe, cloud_liquid_to_rain_water_rate) ==
  FMul(FMul(FAdd(e_l, pe), st["rho"]), cloud_liquid_to_rain_water_rate)

\* lines 358-362
Evaporation(st, thermo_states, q_l, q_c) ==
  evaporation(st["rho_thermal"], thermo_states.T, st["q_r"],
              FSub(thermo_states.q_t, q_c), q_l, q_c)

\* lines 345-377
WithPrecipitation(self, st, thermo_states, q_l, e_c, source) ==
  IF self.include_precipitation
  THEN FAdd(FAdd(source,
                 SourceV(st, e_c[1], FScale(G, thermo_states.zz),
                         Evaporation(st, thermo_states, q_l,
                                     saturation_excess(thermo_states.T,
                                                       st["rho_thermal"],
                                                       thermo_states.q_t)))),
            SourceL(st, e_c[2], FScale(G, thermo_states.zz),
                    autoconversion_and_accretion(st["q_r"], q_l)))
  ELSE source

\* the collaborator calls from the shear stress on, up to the lookup of q_r
CallsBeforeRain(self, thermo_states, mu, q_l, div_terms) ==
  <<Call("shear_stress", mu)>>
  \o (IF self.include_radiation \/ self.include_precipitation
      THEN <<Call("equilibrium_phase_partition", thermo_states.T)>>
      ELSE <<>>)
  \o (IF self.include_radiation
      THEN <<Call("source_by_radiation", q_l)>> ELSE <<>>)
  \o <<Call("divergence", div_terms[3])>>
  \o (IF self.include_subsidence
      THEN <<Call("source_by_subsidence_velocity", thermo_states.h_t)>>
      ELSE <<>>)
  \o (IF self.include_precipitation
      THEN <<Call("internal_energy_components", thermo_states.T)>>
      ELSE <<>>)

\* the calls after the lookup of q_r
CallsAfterRain(self, st, thermo_states, q_c) ==
  IF self.include_precipitation
  THEN <<Call("autoconversion_and_accretion", st["q_r"]),
         Call("saturation_excess", thermo_states.T),
         Call("evaporation", FSub(thermo_states.q_t, q_c))>>
  ELSE <<>>

\* lines 332-379, given the terms of the divergence
SourceOfTerms(self, st, thermo_states, mu, q_l, f_r, div_terms) ==
  IF self.include_precipitation /\ "q_r" \notin DOMAIN st
  THEN [status |-> "KeyError", value |-> <<>>,
        calls |-> thermo_states.calls
                  \o CallsBeforeRain(self, thermo_states, mu, q_l, div_terms),
        reads |-> {"rho", "rho_thermal", "u", "v", "w", "q_r"}
                  \cup thermo_states.reads,
        f_r |-> IF self.include_radiation THEN f_r ELSE <<>>]
  ELSE [status |-> "returned",
        value |->
          WithPrecipitation(
            self, st, thermo_states, q_l,
            internal_energy_components(thermo_states.T),
            WithSubsidence(self, st, thermo_states,
                           divergence(div_terms, self.h))),
        calls |-> thermo_states.calls
                  \o CallsBeforeRain(self, thermo_states, mu, q_l, div_terms)
                  \o CallsAfterRain(self, st, thermo_states,
                                    saturation_excess(thermo_states.T,
                                                      st["rho_thermal"],
                                                      thermo_states.q_t)),
        reads |-> {"rho", "rho_thermal", "u", "v", "w"}
                  \cup thermo_states.reads
                  \cup (IF self.include_precipitation THEN {"q_r"} ELSE {}),
        f_r |-> IF self.include_radiation THEN f_r ELSE <<>>]

\* lines 314-379, given the liquid humidity
SourceOfFlux(self, st, thermo_states, mu, q_l, f_r) ==
  SourceOfTerms(
    self, st, thermo_states, mu, q_l, f_r,
    DivTerms(self, st,
             RhoUTau(st, shear_stress(mu, self.h, st["u"], st["v"], st["w"])),
             f_r))

\* lines 259-379, given the viscosity
SourceOfPhase(self, st, thermo_states, mu, q_l) ==
  SourceOfFlux(
    self, st, thermo_states, mu, q_l,
    source_by_radiation(q_l, st["rho_thermal"], thermo_states.zz,
                        self.h[self.g_dim[1] + 1], self.g_dim[1]))

\* lines 249-379, given the thermodynamic states
SourceOfStates(self, st, ad, thermo_states) ==
  IF self.use_sgs /\ "nu_t" \notin DOMAIN ad
  THEN [status |-> "KeyError", value |-> <<>>, calls |-> thermo_states.calls,
        reads |-> {"rho", "rho_thermal"} \cup thermo_states.reads,
        f_r |-> <<>>]
  ELSE SourceOfPhase(
         self, st, thermo_states, Viscosity(self, st, ad),
         equilibrium_phase_partition(thermo_states.T, st["rho_thermal"],
                                     thermo_states.q_t)[1])

TotalEnergy_source_fn_LateCheck(self, p, st, ad) ==
  IF self.model # "water"
  THEN [SourceOfStates(self, st, ad,
                       TotalEnergy_get_thermodynamic_variables(self, p, st, ad))
          EXCEPT !.status = "ValueError", !.value = <<>>]
  ELSE SourceOfStates(
         self, st, ad,
         TotalEnergy_get_thermodynamic_variables(self, p, st, ad))

TotalEnergy_source_fn(self, p, st, ad) ==
  IF self.model # "water"
  THEN [status |-> "ValueError", value |-> <<>>, calls |-> <<>>, reads |-> {},
        f_r |-> <<>>]
  ELSE SourceOfStates(
         self, st, ad,
         TotalEnergy_get_thermodynamic_variables(self, p, st, ad))

\* mutant: q_t and rho_thermal are looked up before the model is examined
PotentialTemperature_get_thermodynamic_variables_EagerReads(self, p, st, ad) ==
  IF self.model # "water"
  THEN [given |-> {self.scalar_name}, calls |-> <<>>,
        reads |-> {"q_t", "rho_thermal"}]
  ELSE
    LET q_t == st["q_t"]
        rho_thermal == st["rho_thermal"]
        zz == GetZz(p, ad)
        temperature == saturation_adjustment(self.scalar_name, p, rho_thermal,
                                             q_t)
        is_li == self.scalar_name = "theta_li"
        theta == potential_temperatures(temperature, q_t, rho_thermal, zz)
        part == equilibrium_phase_partition(temperature, rho_thermal, q_t)
    IN [given |-> {self.scalar_name, "zz", "T", "q_l", "q_i"}
                  \cup (IF is_li THEN {"theta"} ELSE {}),
        zz |-> zz, T |-> temperature, theta |-> theta,
        q_l |-> part[1], q_i |-> part[2],
        calls |->
          <<Call("saturation_adjustment", p)>>
          \o (IF is_li THEN <<Call("potential_temperatures", temperature)>>
              ELSE <<>>)
          \o <<Call("equilibrium_phase_partition", temperature)>>,
        reads |-> {"q_t", "rho_thermal"}]

PotentialTemperature_get_thermodynamic_variables(self, p, st, ad) ==
  IF self.model # "water"
  THEN [given |-> {self.scalar_name}, calls |-> <<>>, reads |-> {}]
  ELSE
    LET q_t == st["q_t"]
        rho_thermal == st["rho_thermal"]
        zz == GetZz(p, ad)
        temperature == saturation_adjustment(self.scalar_name, p, rho_thermal,
                                             q_t)
        is_li == self.scalar_name = "theta_li"
        theta == potential_temperatures(temperature, q_t, rho_thermal, zz)
        part == equilibrium_phase_partition(temperature, rho_thermal, q_t)
    IN [given |-> {self.scalar_name, "zz", "T", "q_l", "q_i"}
                  \cup (IF is_li THEN {"theta"} ELSE {}),
        zz |-> zz, T |-> temperature, theta |-> theta,
        q_l |-> part[1], q_i |-> part[2],
        calls |->
          <<Call("saturation_adjustment", p)>>
          \o (IF is_li THEN <<Call("potential_temperatures", temperature)>>
              ELSE <<>>)
          \o <<Call("equilibrium_phase_partition", temperature)>>,
        reads |-> {"q_t", "rho_thermal"}]

\* self._include_radiation and isinstance(self._thermodynamics.model, Water)
RadiationApplies(self) == self.include_radiation /\ self.model = "water"

SubsidenceApplies_AnyName(self) ==
  self.include_subsidence /\ self.model = "water"

\* self._include_subsidence and isinstance(..., Water)
\*   and self._scalar_name == 'theta_li'
SubsidenceApplies(self) ==
  /\ self.include_subsidence
  /\ self.model = "water"
  /\ self.scalar_name = "theta_li"

PotentialTemperature_source_fn(self, p, st, ad) ==
  LET thermo_states ==
        PotentialTemperature_get_thermodynamic_variables(self, p, st, ad)
      g == self.g_dim[1] + 1
      source0 == zeros_like(p)
      f_r == source_by_radiation(thermo_states.q_l, st["rho_thermal"],
                                 thermo_states.zz, self.h[g], self.g_dim[1])
      rad_src == FMul(FNeg(st["rho"]), f_r)
      grad == FScale(RRecip(RMul(R(2), self.h[g])),
                     apply_kernel_op(rad_src, self.g_dim[1]))
      cp_m_inv == FRecip(cp_m(st["q_t"], thermo_states.q_l, thermo_states.q_i))
      exner_inv == exner_inverse(st["rho_thermal"], st["q_t"],
                                 thermo_states.T, thermo_states.zz)
      cp_m_exner_inv == FMul(cp_m_inv, exner_inv)
      source1 == IF RadiationApplies(self)
                 THEN FMul(cp_m_exner_inv, grad)
                 ELSE source0
      src_subsidence ==
        source_by_subsidence_velocity(st["rho"], thermo_states.zz, self.h[g],
                                      p, self.g_dim[1])
      source2 == IF SubsidenceApplies(self)
                 THEN FAdd(source1, src_subsidence)
                 ELSE source1
  IN [status |-> "returned", value |-> source2,
      calls |->
        thermo_states.calls
        \o (IF RadiationApplies(self)
            THEN <<Call("source_by_radiation", thermo_states.q_l),
                   Call("cp_m", st["q_t"]),
                   Call("exner_inverse", thermo_states.T)>>
            ELSE <<>>)
        \o (IF SubsidenceApplies(self)
            THEN <<Call("source_by_subsidence_velocity", p)>>
            ELSE <<>>),
      reads |->
        thermo_states.reads
        \cup (IF RadiationApplies(self)
              THEN {"rho_thermal", "rho", "q_t"} ELSE {})
        \cup (IF SubsidenceApplies(self) THEN {"rho"} ELSE {}),
      f_r |-> IF RadiationApplies(self) THEN f_r ELSE <<>>]

\* ScalarGeneric.source_fn: the generic scalar has no source term
ScalarGeneric_source_fn(self, p, st, ad) ==
  [status |-> "returned", value |-> zeros_like(p), calls |-> <<>>,
   reads |-> {}, f_r |-> <<>>]

(***************************************************************************)
(* Configurations and inputs of the source functions.                      *)
(***************************************************************************)
Slots == {"A", "B"}

GridSpacing == <<[n |-> 1, d |-> 2], [n |-> 1, d |-> 4], [n |-> 1, d |-> 8]>>

FlagSets ==
  {[has_field |-> FALSE, include_radiation |-> FALSE,
    include_subsidence |-> FALSE, include_precipitation |-> FALSE]}
  \cup [has_field : {TRUE}, include_radiation : BOOLEAN,
        include_subsidence : BOOLEAN, include_precipitation : BOOLEAN]

MakeConfig(cls, name, configured, model, f, g_dim, use_sgs) ==
  [cls |-> cls, scalar_name |-> name, configured |-> configured,
   model |-> model, has_field |-> f.has_field,
   include_radiation |-> f.include_radiation,
   include_subsidence |-> f.include_subsidence,
   include_precipitation |-> f.include_precipitation,
   g_dim |-> g_dim, use_sgs |-> use_sgs, nu |-> R(2), h |-> GridSpacing,
   halo_width |-> 1]

GravityDims == {<<>>, <<1>>, <<2>>}

NoFlags == CHOOSE f \in FlagSets : ~f.has_field

\* every class name, scalar name and thermodynamics model
NameAndModelConfigs ==
  {MakeConfig(cls, name, conf, model, NoFlags, <<2>>, FALSE) :
     cls \in {"TotalEnergy", "PotentialTemperature"},
     name \in {"e_t", "q_t", "theta", "theta_li"},
     conf \in BOOLEAN, model \in {"water", "ideal_gas"}}

TotalEnergyConfigs ==
  {MakeConfig("TotalEnergy", "e_t", TRUE, "water", f, g, sgs) :
     f \in FlagSets, g \in GravityDims \ {<<>>}, sgs \in BOOLEAN}
  \cup {MakeConfig("TotalEnergy", "e_t", TRUE, "water", f, <<>>, FALSE) :
          f \in {ff \in FlagSets : ff.include_radiation = ff.include_subsidence
                                    /\ ff.include_subsidence
                                       = ff.include_precipitation}}

PotentialTemperatureConfigs ==
  {MakeConfig("PotentialTemperature", name, TRUE, model, f, g, FALSE) :
     name \in _POTENTIAL_TEMPERATURE_VARNAME, model \in {"water", "ideal_gas"},
     f \in {ff \in FlagSets : ~ff.include_precipitation}, g \in GravityDims}

ScalarGenericConfigs ==
  {MakeConfig("ScalarGeneric", "Z", conf, model, NoFlags, <<2>>, FALSE) :
     conf \in BOOLEAN, model \in {"water", "ideal_gas"}}

Configs ==
  NameAndModelConfigs \cup TotalEnergyConfigs \cup PotentialTemperatureConfigs
  \cup ScalarGenericConfigs

\* the second object's configuration, derived from the first
Variations == {"same", "radiation", "name"}

OtherName(name) ==
  IF name = "theta" THEN "theta_li"
  ELSE IF name = "theta_li" THEN "theta"
  ELSE IF name = "e_t" THEN "q_t"
  ELSE "e_t"

Vary(c, how) ==
  IF how = "radiation"
  THEN [c EXCEPT !.has_field = TRUE, !.include_radiation = ~@]
  ELSE IF how = "name"
  THEN [c EXCEPT !.scalar_name = OtherName(@)]
  ELSE c

\* a field of the given shape: k + a * x + b * z + c * y at (z, x, y)
SField(shape, k, a, b, c) ==
  [z \in 1..shape[1] |-> [x \in 1..shape[2] |-> [y \in 1..shape[3] |->
     R(k + a * x + b * z + c * y)]]]

FullShape == <<NZ, SX, NY>>

SmallShape == <<1, SX, 1>>

Scenarios ==
  {[shape |-> FullShape, moving |-> TRUE, level |-> 1, gain |-> 1,
    absent |-> {"T", "theta"}],
   [shape |-> FullShape, moving |-> TRUE, level |-> 1, gain |-> 0,
    absent |-> {"T", "theta"}],
   [shape |-> FullShape, moving |-> FALSE, level |-> 1, gain |-> 1,
    absent |-> {"T", "theta"}],
   [shape |-> FullShape, moving |-> TRUE, level |-> 1, gain |-> 1,
    absent |-> {}],
   [shape |-> FullShape, moving |-> FALSE, level |-> 0, gain |-> 0,
    absent |-> {"T", "theta", "zz"}],
   [shape |-> SmallShape, moving |-> TRUE, level |-> 1, gain |-> 1,
    absent |-> {"T", "theta", "zz", "nu_t", "q_r"}]}

Restrict(f, absent) == [k \in DOMAIN f \ absent |-> f[k]]

ScenarioPhi(sc) == SField(sc.shape, 5 * sc.level, sc.level, 1 - sc.level, 0)

ScenarioStates(sc) ==
  LET m == IF sc.moving THEN 1 ELSE 0
  IN Restrict([u |-> SField(sc.shape, m, m, 0, 0),
               v |-> SField(sc.shape, -m, 0, m, 0),
               w |-> SField(sc.shape, 0, 0, m, m),
               rho |-> SField(sc.shape, sc.level, 0, sc.level, 0),
               rho_thermal |-> SField(sc.shape, 2 * sc.level, 0, 0, sc.level),
               q_t |-> SField(sc.shape, 0, sc.level, 0, 0),
               q_r |-> SField(sc.shape, sc.level, 0, 0, 0)], sc.absent)

ScenarioHelpers(sc) ==
  Restrict([zz |-> SField(sc.shape, 0, 0, 1, 1),
            nu_t |-> SField(sc.shape, 1, 1, 0, 0),
            T |-> SField(sc.shape, 7, 0, 1, 0),
            theta |-> SField(sc.shape, 9, 1, 0, 0)], sc.absent)

NotConstructed == [status |-> "absent"]

NotCalled ==
  [status |-> "pending", value |-> <<>>, calls |-> <<>>, reads |-> {},
   f_r |-> <<>>]

InitSource ==
  \E c \in Configs, how \in Variations, sc \in Scenarios :
    /\ config = [sl \in Slots |-> IF sl = "A" THEN c ELSE Vary(c, how)]
    /\ obj = [sl \in Slots |-> NotConstructed]
    /\ phi = ScenarioPhi(sc)
    /\ flow = ScenarioStates(sc)
    /\ helper = ScenarioHelpers(sc)
    /\ cloud_gain = sc.gain
    /\ out = [sl \in Slots |-> NotCalled]
    /\ replicas = <<>> /\ params = <<>> /\ states = <<>>
    /\ additional_states = <<>> /\ result = <<>> /\ reduced = <<>>
    /\ NoMonitor
    /\ NoAdjustment

(***************************************************************************)
(* Constructing an object and calling its source_fn.  The objects are      *)
(* built and called one after the other, as statements of one Python       *)
(* thread: slot B starts when slot A has raised or returned.               *)
(***************************************************************************)
Finished(sl) ==
  \/ obj[sl].status \notin {"absent", "constructed"}
  \/ out[sl] # NotCalled

Turn(sl) == sl = "A" \/ Finished("A")

TotalEnergyInit(sl) ==
  /\ Turn(sl)
  /\ config[sl].cls = "TotalEnergy"
  /\ obj[sl] = NotConstructed
  /\ obj' = [obj EXCEPT ![sl] = TotalEnergy_init(config[sl])]
  /\ UNCHANGED <<config, phi, flow, helper, cloud_gain, out>>
  /\ UNCHANGED outflowVars
  /\ UNCHANGED monitorVars
  /\ UNCHANGED adjust

PotentialTemperatureInit(sl) ==
  /\ Turn(sl)
  /\ config[sl].cls = "PotentialTemperature"
  /\ obj[sl] = NotConstructed
  /\ obj' = [obj EXCEPT ![sl] = PotentialTemperature_init(config[sl])]
  /\ UNCHANGED <<config, phi, flow, helper, cloud_gain, out>>
  /\ UNCHANGED outflowVars
  /\ UNCHANGED monitorVars
  /\ UNCHANGED adjust

ScalarGenericInit(sl) ==
  /\ Turn(sl)
  /\ config[sl].cls = "ScalarGeneric"
  /\ obj[sl] = NotConstructed
  /\ obj' = [obj EXCEPT ![sl] = ScalarGeneric_init(config[sl])]
  /\ UNCHANGED <<config, phi, flow, helper, cloud_gain, out>>
  /\ UNCHANGED outflowVars
  /\ UNCHANGED monitorVars
  /\ UNCHANGED adjust

Callable(sl, cls) ==
  /\ obj[sl].status = "constructed"
  /\ obj[sl].cls = cls
  /\ out[sl] = NotCalled

TotalEnergySourceFn_SetDefault(sl) ==
  /\ Callable(sl, "TotalEnergy")
  /\ out' = [out EXCEPT ![sl] = TotalEnergy_source_fn(obj[sl], phi, flow, helper)]
  /\ helper' = [k \in DOMAIN helper \cup {"zz"} |->
                  IF k \in DOMAIN helper THEN helper[k] ELSE zeros_like(phi)]
  /\ UNCHANGED <<config, obj, phi, flow, cloud_gain>>
  /\ UNCHANGED outflowVars
  /\ UNCHANGED monitorVars
  /\ UNCHANGED adjust

TotalEnergySourceFn(sl) ==
  /\ Callable(sl, "TotalEnergy")
  /\ out' = [out EXCEPT ![sl] = TotalEnergy_source_fn(obj[sl], phi, flow, helper)]
  /\ UNCHANGED <<config, obj, phi, flow, helper, cloud_gain>>
  /\ UNCHANGED outflowVars
  /\ UNCHANGED monitorVars
  /\ UNCHANGED adjust

\* mutant: the call leaves a trace in the object that later calls read
PotentialTemperatureSourceFn_Stateful(sl) ==
  /\ Callable(sl, "PotentialTemperature")
  /\ out' = [out EXCEPT ![sl] =
               PotentialTemperature_source_fn(obj[sl], phi, flow, helper)]
  /\ obj' = [obj EXCEPT ![sl].h = [i \in 1..3 |-> RMul(R(2), @[i])]]
  /\ UNCHANGED <<config, phi, flow, helper, cloud_gain>>
  /\ UNCHANGED outflowVars
  /\ UNCHANGED monitorVars
  /\ UNCHANGED adjust

PotentialTemperatureSourceFn(sl) ==
  /\ Callable(sl, "PotentialTemperature")
  /\ out' = [out EXCEPT ![sl] =
               PotentialTemperature_source_fn(obj[sl], phi, flow, helper)]
  /\ UNCHANGED <<config, obj, phi, flow, helper, cloud_gain>>
  /\ UNCHANGED outflowVars
  /\ UNCHANGED monitorVars
  /\ UNCHANGED adjust

ScalarGenericSourceFn(sl) ==
  /\ Callable(sl, "ScalarGeneric")
  /\ out' = [out EXCEPT ![sl] =
               ScalarGeneric_source_fn(obj[sl], phi, flow, helper)]
  /\ UNCHANGED <<config, obj, phi, flow, helper, cloud_gain>>
  /\ UNCHANGED outflowVars
  /\ UNCHANGED monitorVars
  /\ UNCHANGED adjust

NextSource ==
  \E sl \in Slots :
    \/ TotalEnergyInit(sl)
    \/ PotentialTemperatureInit(sl)
    \/ ScalarGenericInit(sl)
    \/ TotalEnergySourceFn(sl)
    \/ PotentialTemperatureSourceFn(sl)
    \/ ScalarGenericSourceFn(sl)

SourceSpec == InitSource /\ [][NextSource]_vars

(***************************************************************************)
(* Claims about the source functions.                                      *)
(***************************************************************************)
Attempted(sl, cls) == config[sl].cls = cls /\ obj[sl] # NotConstructed

Returned(sl, cls) == out[sl].status = "returned" /\ obj[sl].cls = cls

IsZeroField(f) ==
  \A z \in 1..Len(f) : \A x \in 1..Len(f[z]) : \A y \in 1..Len(f[z][x]) :
    f[z][x][y] = R(0)

SameShape(f, g) ==
  /\ Len(f) = Len(g)
  /\ \A z \in 1..Len(f) :
       /\ Len(f[z]) = Len(g[z])
       /\ \A x \in 1..Len(f[z]) : Len(f[z][x]) = Len(g[z][x])

Called(sl, fn) == \E i \in 1..Len(out[sl].calls) : out[sl].calls[i].fn = fn

\* C6: with params that configure the scalar, constructing TotalEnergy
\* succeeds only for scalar_name 'e_t' with the water model; any other name
\* raises AssertionError, 'e_t' with a non-water model raises ValueError, and
\* every constructed object has its cloud and microphysics set.
C6_TotalEnergyConstruction ==
  \A sl \in Slots :
    Attempted(sl, "TotalEnergy") =>
      /\ obj[sl].status = "constructed" =>
           /\ config[sl].scalar_name = "e_t"
           /\ config[sl].model = "water"
           /\ obj[sl].cloud = "Cloud"
           /\ obj[sl].microphysics = "MicrophysicsKW1978"
      /\ config[sl].configured /\ config[sl].scalar_name # "e_t" =>
           obj[sl].status = "AssertionError"
      /\ /\ config[sl].configured
         /\ config[sl].scalar_name = "e_t"
         /\ config[sl].model # "water"
         => obj[sl].status = "ValueError"
      /\ /\ config[sl].configured
         /\ config[sl].scalar_name = "e_t"
         /\ config[sl].model = "water"
         => obj[sl].status = "constructed"

C6_Witness ==
  /\ Attempted("A", "TotalEnergy") /\ Attempted("B", "TotalEnergy")
  /\ config["A"].model # "water"
  /\ obj["A"].status = "ValueError"
  /\ obj["B"].status = "AssertionError"

\* C7: with params that configure the scalar, constructing
\* PotentialTemperature raises AssertionError for a scalar_name outside
\* {'theta', 'theta_li'} and succeeds for both names with either model.
C7_PotentialTemperatureConstruction ==
  \A sl \in Slots :
    Attempted(sl, "PotentialTemperature") /\ config[sl].configured =>
      IF config[sl].scalar_name \in {"theta", "theta_li"}
      THEN obj[sl].status = "constructed"
      ELSE obj[sl].status = "AssertionError"

C7_Witness ==
  /\ Attempted("A", "PotentialTemperature")
  /\ Attempted("B", "PotentialTemperature")
  /\ config["A"].model # "water"
  /\ config["A"].scalar_name = "theta"
  /\ config["B"].scalar_name = "theta_li"
  /\ obj["A"].status = "constructed"
  /\ obj["B"].status = "constructed"

\* what the object in slot sl returns with its subsidence flag off
WithoutSubsidence(sl) ==
  PotentialTemperature_source_fn([obj[sl] EXCEPT !.include_subsidence = FALSE],
                                 phi, flow, helper).value

SubsidenceOf(sl) ==
  source_by_subsidence_velocity(flow["rho"], GetZz(phi, helper),
                                obj[sl].h[obj[sl].g_dim[1] + 1], phi,
                                obj[sl].g_dim[1])

\* C8: PotentialTemperature.source_fn adds the subsidence term only for
\* 'theta_li': for 'theta' the result is the one obtained with the flag off
\* and no subsidence call is made, while for 'theta_li' with the flag on, a
\* gravity axis and the water model the subsidence source is added to it.
C8_SubsidenceOnlyThetaLi ==
  \A sl \in Slots :
    Returned(sl, "PotentialTemperature") =>
      /\ obj[sl].scalar_name = "theta" =>
           /\ out[sl].value = WithoutSubsidence(sl)
           /\ ~Called(sl, "source_by_subsidence_velocity")
      /\ /\ obj[sl].scalar_name = "theta_li"
         /\ obj[sl].include_subsidence
         /\ obj[sl].model = "water"
         => /\ out[sl].value = FAdd(WithoutSubsidence(sl), SubsidenceOf(sl))
            /\ Called(sl, "source_by_subsidence_velocity")

C8_Witness ==
  /\ Returned("A", "PotentialTemperature")
  /\ Returned("B", "PotentialTemperature")
  /\ obj["A"].scalar_name = "theta" /\ obj["B"].scalar_name = "theta_li"
  /\ obj["A"].include_subsidence /\ obj["B"].include_subsidence
  /\ obj["A"].model = "water" /\ obj["B"].model = "water"
  /\ ~IsZeroField(SubsidenceOf("B"))
  /\ out["A"].value = WithoutSubsidence("A")
  /\ out["B"].value # WithoutSubsidence("B")

\* C9: two TotalEnergy objects that differ only in include_radiation return
\* the same field from the same inputs whenever the flux the Cloud
\* collaborator returned is zero everywhere.
C9_ZeroFluxRadiation ==
  \A on \in Slots, off \in Slots :
    /\ Returned(on, "TotalEnergy") /\ Returned(off, "TotalEnergy")
    /\ obj[on].include_radiation /\ ~obj[off].include_radiation
    /\ obj[on] = [obj[off] EXCEPT !.include_radiation = TRUE]
    /\ IsZeroField(out[on].f_r)
    => out[on].value = out[off].value

C9_Witness ==
  \E on \in Slots, off \in Slots :
    /\ Returned(on, "TotalEnergy") /\ Returned(off, "TotalEnergy")
    /\ obj[on].include_radiation /\ ~obj[off].include_radiation
    /\ obj[on] = [obj[off] EXCEPT !.include_radiation = TRUE]
    /\ obj[on].include_subsidence /\ obj[on].include_precipitation
    /\ Called(on, "source_by_radiation")
    /\ IsZeroField(out[on].f_r)
    /\ ~IsZeroField(out[on].value)
    /\ out[on].value = out[off].value

NoOptionalTerm(sl) ==
  /\ ~obj[sl].include_radiation
  /\ ~obj[sl].include_subsidence
  /\ ~obj[sl].include_precipitation

AtRest == IsZeroField(flow["u"]) /\ IsZeroField(flow["v"]) /\ IsZeroField(flow["w"])

\* C10: every field source_fn returns has the slice count and per-slice
\* shape of phi; it is zero everywhere for PotentialTemperature with no
\* optional term active, for the generic scalar, and for TotalEnergy with no
\* optional term active and a fluid at rest.
C10_ZeroSource ==
  \A sl \in Slots :
    out[sl].status = "returned" =>
      /\ SameShape(out[sl].value, phi)
      /\ obj[sl].cls = "PotentialTemperature" /\ NoOptionalTerm(sl) =>
           IsZeroField(out[sl].value)
      /\ obj[sl].cls = "ScalarGeneric" => IsZeroField(out[sl].value)
      /\ obj[sl].cls = "TotalEnergy" /\ NoOptionalTerm(sl) /\ AtRest =>
           IsZeroField(out[sl].value)

C10_Witness ==
  /\ Returned("A", "PotentialTemperature")
  /\ NoOptionalTerm("A")
  /\ obj["A"].model = "water"
  /\ ~IsZeroField(phi)
  /\ Len(phi) = NZ
  /\ IsZeroField(out["A"].value)
  /\ SameShape(out["A"].value, phi)

\* C11: source_fn of TotalEnergy and of PotentialTemperature changes none of
\* phi, states and additional_states, whatever the flags, and the field it
\* returns has as many slices as phi.
C11_SliceCount ==
  \A sl \in Slots :
    /\ out[sl].status = "returned"
    /\ obj[sl].cls \in {"TotalEnergy", "PotentialTemperature"}
    => Len(out[sl].value) = Len(phi)

C11_PureSourceFn ==
  /\ []C11_SliceCount
  /\ [][phi' = phi /\ flow' = flow /\ helper' = helper]_vars

C11_Witness ==
  /\ Returned("A", "TotalEnergy")
  /\ obj["A"].include_radiation
  /\ obj["A"].include_subsidence
  /\ obj["A"].include_precipitation
  /\ "zz" \notin DOMAIN helper
  /\ Len(phi) = NZ
  /\ Len(out["A"].value) = NZ

Collectives == {"source_by_radiation"}

\* the collective calls among the calls made, in order
CollectiveCalls(calls) ==
  SelectSeq([i \in 1..Len(calls) |-> calls[i].fn], LAMBDA fn : fn \in Collectives)

\* what TotalEnergy.source_fn does on the object of slot sl when the
\* thermodynamics model is not water
EntryCheck(sl) ==
  TotalEnergy_source_fn([obj[sl] EXCEPT !.model = "ideal_gas"],
                        phi, flow, helper)

\* C12: a configuration mismatch is raised before any collective call: an
\* object whose constructor raised is never called, and the entry check of
\* TotalEnergy.source_fn raises ValueError with no call made before it.
C12_ErrorsBeforeCollectives ==
  \A sl \in Slots :
    /\ obj[sl].status \in {"AssertionError", "ValueError", "ConfigurationError"}
         => out[sl] = NotCalled
    /\ obj[sl].status = "constructed" /\ obj[sl].cls = "TotalEnergy" =>
         /\ EntryCheck(sl).status = "ValueError"
         /\ EntryCheck(sl).calls = <<>>
    /\ out[sl].status = "ValueError" => out[sl].calls = <<>>

C12_Witness ==
  /\ Returned("A", "TotalEnergy")
  /\ CollectiveCalls(out["A"].calls) = <<"source_by_radiation">>
  /\ EntryCheck("A").status = "ValueError"
  /\ EntryCheck("A").calls = <<>>
  /\ obj["B"].status = "AssertionError"
  /\ out["B"] = NotCalled

(***************************************************************************)
(* One evaluation of either kind: the outflow update by the replicas, or   *)
(* the source functions.                                                   *)
(***************************************************************************)
InitEvaluation ==
  \/ /\ InitOutflow
     /\ params.halo_width = 1
     /\ params.dt = R(1)
     /\ params.dx = R(2)
  \/ /\ InitSource
     /\ cloud_gain = 1

NextEvaluation ==
  \/ replicas # <<>> /\ NextOutflow
  \/ config # <<>> /\ NextSource

EvaluationSpec == InitEvaluation /\ [][NextEvaluation]_vars

\* the collective calls of source_fn by the run-global configuration c
ExpectedCollectives(c) ==
  IF /\ IncludeFlag(c, c.include_radiation)
     /\ c.cls \in {"TotalEnergy", "PotentialTemperature"}
     /\ c.model = "water"
  THEN <<"source_by_radiation">>
  ELSE <<>>

IsPrefix(s, t) == Len(s) <= Len(t) /\ s = SubSeq(t, 1, Len(s))

SameGroup(r1, r2) ==
  GroupOf(group_assignment, r1) = GroupOf(group_assignment, r2)

\* C13: the collective calls of one evaluation are fixed by the run-global
\* configuration.  Every replica that ran the outflow update issued the max
\* of u, then the two face sums, on its own group, so the replicas of one
\* group issued the same sequence whatever their fields hold; source_fn
\* issued the radiation routine exactly when the configuration enables it
\* (an evaluation cut short by a missing key issued a prefix of that).
C13_SameCollectives ==
  /\ replicas # <<>> =>
       \A r1 \in ReplicaIds :
         reduced[r1].done =>
           /\ reduced[r1].collectives =
                <<[op |-> "reduce_max", group |-> GroupOf(group_assignment, r1)],
                  [op |-> "reduce_sum", group |-> GroupOf(group_assignment, r1)],
                  [op |-> "reduce_sum", group |-> GroupOf(group_assignment, r1)]>>
           /\ \A r2 \in ReplicaIds :
                reduced[r2].done /\ SameGroup(r1, r2) =>
                  reduced[r1].collectives = reduced[r2].collectives
  /\ config # <<>> =>
       \A sl \in Slots :
         /\ out[sl].status = "returned" =>
              CollectiveCalls(out[sl].calls) = ExpectedCollectives(config[sl])
         /\ out[sl].status \in {"KeyError", "ValueError"} =>
              IsPrefix(CollectiveCalls(out[sl].calls),
                       ExpectedCollectives(config[sl]))

C13_Witness ==
  /\ replicas # <<>>
  /\ \E r1 \in ReplicaIds, r2 \in ReplicaIds :
       /\ r1 # r2
       /\ SameGroup(r1, r2)
       /\ reduced[r1].done /\ reduced[r2].done
       /\ ReduceMax(OutletU(r1)).n <= 0
       /\ ReduceMax(OutletU(r2)).n > 0
       /\ Len(reduced[r1].collectives) = 3
       /\ reduced[r1].collectives = reduced[r2].collectives

\* source_fn of the object of slot sl, called now
SecondEvaluation(sl) ==
  IF obj[sl].cls = "TotalEnergy"
  THEN TotalEnergy_source_fn(obj[sl], phi, flow, helper)
  ELSE IF obj[sl].cls = "PotentialTemperature"
  THEN PotentialTemperature_source_fn(obj[sl], phi, flow, helper)
  ELSE ScalarGeneric_source_fn(obj[sl], phi, flow, helper)

_MONITOR_NAME_DELIMITER == "_"

_MONITOR_VAR_PREFIX == "MONITOR"

DictHas(d, k) == \E i \in 1..Len(d) : d[i].k = k

DictGet(d, k) == d[CHOOSE i \in 1..Len(d) : d[i].k = k].v

DictKeys(d) == {d[i].k : i \in 1..Len(d)}

\* d[k] = v: a key already present keeps its place
DictSet(d, k, v) ==
  IF DictHas(d, k)
  THEN [i \in 1..Len(d) |-> IF d[i].k = k THEN [k |-> k, v |-> v] ELSE d[i]]
  ELSE Append(d, [k |-> k, v |-> v])

RECURSIVE DictUpdate(_, _)
\* d.update(e)
DictUpdate(d, e) ==
  IF e = <<>> THEN d
  ELSE DictUpdate(DictSet(d, Head(e).k, Head(e).v), Tail(e))

RECURSIVE Product(_)
Product(s) == IF s = <<>> THEN 1 ELSE Head(s) * Product(Tail(s))

Tensor(shape, v) == [py |-> "tensor", shape |-> shape, v |-> v]

PyList(items) == [py |-> "list", items |-> items]

\* tf.zeros(shape) and tf.constant(0, shape=shape)
tf_zeros(shape) == Tensor(shape, [i \in 1..Product(shape) |-> R(0)])

\* tf.stack of a list of nz slices of shape (nx, ny)
tf_stack(f) ==
  Tensor(<<Len(f), Len(f[1]), Len(f[1][1])>>, Flatten(Flatten(f)))

\* str.lower on the statistic names in use
Lower(s) == IF s = "MOMENT" THEN "moment" ELSE s

\* key.split('_')[2], compared in lower case with the StatisticType values;
\* a key of fewer than three segments has no index 2
statistic_type(key) ==
  IF Len(key) < 3 THEN "IndexError"
  ELSE LET statistic_str == key[3]
       IN IF Lower(statistic_str) = "moment" THEN "MOMENT"
          ELSE IF Lower(statistic_str) = "raw" THEN "RAW"
          ELSE IF Lower(statistic_str) = "subiter-scalar"
               THEN "SUBITER_SCALAR"
          ELSE "UNKNOWN"

\* regex.match of 'MONITOR_[\w+]': the name starts with 'MONITOR_' and one
\* more character of [\w+] follows; a segment in use starts with a word
\* character, and the delimiter of an empty segment is a word character too
MatchesMonitor(name) ==
  /\ Len(name) >= 2
  /\ name[1] = _MONITOR_VAR_PREFIX
  /\ (name[2] # "" \/ Len(name) >= 3)

_initial_moment(p) ==
  IF p.periodic_dims = <<>>
  THEN PyList(<<tf_zeros(<<1, 1>>)>>)
  ELSE LET halos == p.halo_width
           nx == IF p.periodic_dims[1] THEN 1 ELSE p.nx - 2 * halos
           ny == IF p.periodic_dims[2] THEN 1 ELSE p.ny - 2 * halos
           nz == IF p.periodic_dims[3] THEN 1 ELSE p.nz - 2 * halos
       IN tf_zeros(<<nz, nx, ny>>)

_initial_raw(p) == tf_zeros(<<p.nz, p.nx, p.ny>>)

_initial_subiter_scalar(p) == tf_zeros(<<p.corrector_nit>>)

\* the initial value of one helper variable key
InitialValue(p, varname) ==
  LET t == statistic_type(varname)
  IN IF t = "MOMENT" THEN _initial_moment(p)
     ELSE IF t = "RAW" THEN _initial_raw(p)
     ELSE IF t = "SUBITER_SCALAR" THEN _initial_subiter_scalar(p)
     ELSE tf_zeros(<<>>)

\* the analytics specs of the monitor spec, in order, each with its state
RECURSIVE AllAnalytics(_)
AllAnalytics(state_analytics) ==
  IF state_analytics = <<>> THEN <<>>
  ELSE LET sa == Head(state_analytics)
       IN [i \in 1..Len(sa.analytics) |->
             [state_name |-> sa.state_name, spec |-> sa.analytics[i]]]
          \o AllAnalytics(Tail(state_analytics))

Supported(spec) == spec.spec \in {"moment_statistic", "raw_state"}

monitor_var_init_from_spec(p) ==
  LET all == AllAnalytics(p.monitor_spec.state_analytics)
  IN IF \E i \in 1..Len(all) : ~Supported(all[i].spec)
     THEN [status |-> "ValueError", vars_dict |-> <<>>]
     ELSE [status |-> "ok",
           vars_dict |->
             DictUpdate(<<>>,
               [i \in 1..Len(all) |->
                  [k |-> all[i].spec.key,
                   v |-> IF all[i].spec.spec = "moment_statistic"
                         THEN _initial_moment(p)
                         ELSE _initial_raw(p)]])]

monitor_var_init(p) ==
  LET monitor_var_names == SelectSeq(p.helper_var_keys, MatchesMonitor)
      n == Len(monitor_var_names)
  IN IF \E i \in 1..n : statistic_type(monitor_var_names[i]) = "IndexError"
     THEN [status |-> "IndexError", vars_dict |-> <<>>]
     ELSE LET vars_dict ==
                DictUpdate(<<>>,
                  [i \in 1..n |->
                     [k |-> monitor_var_names[i],
                      v |-> InitialValue(p, monitor_var_names[i])]])
              from_spec == monitor_var_init_from_spec(p)
          IN IF from_spec.status # "ok" THEN from_spec
             ELSE [status |-> "ok",
                   vars_dict |-> DictUpdate(vars_dict, from_spec.vars_dict)]

NoProcessor == [kind |-> "None"]

_make_analytics_processor(state_name, spec) ==
  IF spec.spec = "moment_statistic"
  THEN [kind |-> "_compute_moment", state_name |-> state_name, spec |-> spec]
  ELSE IF spec.spec = "raw_state"
  THEN [kind |-> "_raw_state", state_name |-> state_name, spec |-> spec]
  ELSE NoProcessor

RECURSIVE InitProcessors(_, _)
InitProcessors(all_processors, state_analytics) ==
  IF state_analytics = <<>> THEN all_processors
  ELSE LET sa == Head(state_analytics)
           state_processors ==
             DictUpdate(<<>>,
               [i \in 1..Len(sa.analytics) |->
                  [k |-> sa.analytics[i].key,
                   v |-> _make_analytics_processor(sa.state_name,
                                                   sa.analytics[i])]])
       IN InitProcessors(DictSet(all_processors, sa.state_name,
                                 state_processors),
                         Tail(state_analytics))

_init_processors(p) == InitProcessors(<<>>, p.monitor_spec.state_analytics)

\* int(seconds // params.dt) on whole seconds
StepOf(seconds, dt) == seconds \div dt

NoObject(status) == [status |-> status]

Monitor_init(p) ==
  LET ta == p.monitor_spec.time_averaging
      data == monitor_var_init(p)
  IN IF data.status # "ok" THEN NoObject(data.status)
     ELSE [status |-> "constructed",
           params |-> p,
           time_averaging |-> ta # <<>>,
           averaging_start_step |->
             IF ta # <<>> /\ ta[1].start_time_seconds # <<>>
             THEN StepOf(ta[1].start_time_seconds[1], p.dt) ELSE 0,
           averaging_end_step |->
             IF ta # <<>> /\ ta[1].end_time_seconds # <<>>
             THEN <<StepOf(ta[1].end_time_seconds[1], p.dt)>> ELSE <<>>,
           homogeneous_dims |-> p.periodic_dims,
           data |-> data.vars_dict,
           processors |-> _init_processors(p)]

RECURSIVE RPow(_, _)
RPow(a, n) == IF n = 0 THEN R(1) ELSE RMul(a, RPow(a, n - 1))

\* lo, lo + 1, .., hi as a sequence
Interval(lo, hi) == [i \in 1..(hi - lo + 1) |-> lo + i - 1]

\* the interior indices of one dimension, in one group where the dimension
\* is homogeneous and one by one where it is not
Groups(n, halo, homogeneous) ==
  IF homogeneous THEN <<Interval(halo + 1, n - halo)>>
  ELSE [i \in 1..(n - 2 * halo) |-> <<halo + i>>]

\* the mean of f^order * f2 over the points zs x xs x ys
GroupMean(f, order, f2, zs, xs, ys) ==
  LET at(z, x, y) ==
        IF f2 = <<>> THEN RPow(f[z][x][y], order)
        ELSE RMul(RPow(f[z][x][y], order), f2[1][z][x][y])
      values ==
        Flatten(Flatten([a \in 1..Len(zs) |-> [b \in 1..Len(xs) |->
          [c \in 1..Len(ys) |-> at(zs[a], xs[b], ys[c])]]]))
  IN RDiv(ReduceSum(values), R(Len(values)))

\* analytics_util.moments(f, [order], halos, periodic_dims, replicas, f2)[0]
\* on one replica: the list of slices of the mean of f^order * f2 over the
\* homogeneous dimensions of the interior, of the shape _initial_moment
\* prepares; without periodic_dims the mean over the whole interior
moments(p, f, order, f2) ==
  LET h == p.halo_width
      hd == IF p.periodic_dims = <<>> THEN <<TRUE, TRUE, TRUE>>
            ELSE p.periodic_dims
      gx == Groups(p.nx, h, hd[1])
      gy == Groups(p.ny, h, hd[2])
      gz == Groups(p.nz, h, hd[3])
  IN Eager([k \in 1..Len(gz) |-> [i \in 1..Len(gx) |-> [j \in 1..Len(gy) |->
       GroupMean(f, order, f2, gz[k], gx[i], gy[j])]]])

_compute_moment(p, state_name, spec, mstates_) ==
  IF spec.second_state # <<>> /\ ~DictHas(mstates_, spec.second_state[1])
  THEN [status |-> "KeyError"]
  ELSE [status |-> "ok",
        value |-> tf_stack(moments(p, DictGet(mstates_, state_name),
                     spec.order,
                     IF spec.second_state = <<>> THEN <<>>
                     ELSE <<DictGet(mstates_, spec.second_state[1])>>))]

_raw_state(state_name, mstates_) ==
  [status |-> "ok", value |-> tf_stack(DictGet(mstates_, state_name))]

\* processor(states, replicas)
Processor(p, processor, mstates_) ==
  IF processor.kind = "_compute_moment"
  THEN _compute_moment(p, processor.state_name, processor.spec, mstates_)
  ELSE _raw_state(processor.state_name, mstates_)

check_key(data, varname) == DictHas(data, varname)

\* mutant: the value is stored without comparing the shapes
Monitor_update_AnyShape(data, varname, value) ==
  IF ~check_key(data, varname)
  THEN [status |-> "ValueError", data |-> data]
  ELSE [status |-> "returned", data |-> DictSet(data, varname, value)]

\* update, on self._data; a Python list has no attribute shape
Monitor_update(data, varname, value) ==
  IF ~check_key(data, varname)
  THEN [status |-> "ValueError", data |-> data]
  ELSE IF value.py # "tensor" \/ DictGet(data, varname).py # "tensor"
  THEN [status |-> "AttributeError", data |-> data]
  ELSE IF value.shape # DictGet(data, varname).shape
  THEN [status |-> "ValueError", data |-> data]
  ELSE [status |-> "returned", data |-> DictSet(data, varname, value)]

\* mutant: the end of the averaging window is ignored
should_time_filter_NoEnd(m, step_) ==
  IF ~m.time_averaging \/ step_ = <<>> THEN FALSE
  ELSE step_[1] > m.averaging_start_step

should_time_filter(m, step_) ==
  IF ~m.time_averaging \/ step_ = <<>> THEN FALSE
  ELSE /\ step_[1] > m.averaging_start_step
       /\ \/ m.averaging_end_step = <<>>
          \/ step_[1] <= m.averaging_end_step[1]

\* a filter of fixed weight in place of the running mean
Filtered_FixedWeight(prev_stat, statistic, valid_count) ==
  RAdd(prev_stat, RDiv(RSub(statistic, prev_stat), R(2)))

\* prev_stat + (statistic - prev_stat) / valid_count, element by element
Filtered(prev_stat, statistic, valid_count) ==
  RAdd(prev_stat, RDiv(RSub(statistic, prev_stat), R(valid_count)))

\* tf.nest.map_structure needs the same structure; tensors of one shape
\* combine element by element and a one-element tensor broadcasts
apply_time_filter(m, step_, statistic, prev_stat) ==
  IF step_ = <<>> THEN [status |-> "ok", value |-> statistic]
  ELSE LET valid_count == step_[1] - m.averaging_start_step + 1
           n == Len(statistic.v)
       IN IF prev_stat.py # "tensor" THEN [status |-> "ValueError"]
          ELSE IF prev_stat.shape = statistic.shape
          THEN [status |-> "ok",
                value |-> Tensor(statistic.shape, [i \in 1..n |->
                  Filtered(prev_stat.v[i], statistic.v[i], valid_count)])]
          ELSE IF Len(prev_stat.v) = 1
          THEN [status |-> "ok",
                value |-> Tensor(statistic.shape, [i \in 1..n |->
                  Filtered(prev_stat.v[1], statistic.v[i], valid_count)])]
          ELSE IF n = 1
          THEN [status |-> "ok",
                value |-> Tensor(prev_stat.shape,
                  [i \in 1..Len(prev_stat.v) |->
                    Filtered(prev_stat.v[i], statistic.v[1], valid_count)])]
          ELSE [status |-> "InvalidArgumentError"]

\* the keys with a processor of one state, in the order of the loop
StateWork(processors) ==
  SelectSeq(processors, LAMBDA item : item.v # NoProcessor)

\* the loop's (key, processor) items over the states that have processors
RECURSIVE Work(_, _)
Work(m, names) ==
  IF names = <<>> THEN <<>>
  ELSE (IF DictHas(m.processors, Head(names))
        THEN StateWork(DictGet(m.processors, Head(names))) ELSE <<>>)
       \o Work(m, Tail(names))

\* monitor_vars[key] = statistic; self.update(key, statistic)
Store(key, statistic, monitor_vars, data) ==
  LET u == Monitor_update(data, key, statistic)
  IN [status |-> u.status, data |-> u.data,
      monitor_vars |-> DictSet(monitor_vars, key, statistic)]

\* prev_stat = states[key]; statistic = tf.cond(...)
Average(m, mstates_, step_, key, statistic_k, monitor_vars, data) ==
  IF ~DictHas(mstates_, key)
  THEN [status |-> "KeyError", data |-> data, monitor_vars |-> monitor_vars]
  ELSE IF ~should_time_filter(m, step_)
  THEN Store(key, statistic_k, monitor_vars, data)
  ELSE LET statistic ==
             apply_time_filter(m, step_, statistic_k, DictGet(mstates_, key))
       IN IF statistic.status # "ok"
          THEN [status |-> statistic.status, data |-> data,
                monitor_vars |-> monitor_vars]
          ELSE Store(key, statistic.value, monitor_vars, data)

\* one turn of the inner loop
Analyse(m, mstates_, step_, item, monitor_vars, data) ==
  LET statistic_k == Processor(m.params, item.v, mstates_)
  IN IF statistic_k.status # "ok"
     THEN [status |-> statistic_k.status, data |-> data,
           monitor_vars |-> monitor_vars]
     ELSE Average(m, mstates_, step_, item.k, statistic_k.value,
                  monitor_vars, data)

RECURSIVE Loop(_, _, _, _, _)
Loop(m, mstates_, step_, work, acc) ==
  IF work = <<>> \/ acc.status # "returned" THEN acc
  ELSE Loop(m, mstates_, step_, Tail(work),
            Analyse(m, mstates_, step_, Head(work), acc.monitor_vars,
                    acc.data))

\* compute_analytics(states, replicas, step): what it returns or raises, and
\* self._data afterwards
compute_analytics(m, mstates_, step_) ==
  Loop(m, mstates_, step_,
       Work(m, [i \in 1..Len(mstates_) |-> mstates_[i].k]),
       [status |-> "returned", data |-> m.data, monitor_vars |-> <<>>])

(***************************************************************************)
(* The Monitor in a simulation: it is constructed from the params, the     *)
(* solver calls compute_analytics once per step on the fields of the step  *)
(* and the helper variables, and puts the returned values back into the    *)
(* helper variables; update is also called directly.                       *)
(***************************************************************************)
MaxStep == 4

FieldSeeds == {0, 1}

Kmoment == <<"MONITOR", "velocity", "moment", "u">>
Kcross == <<"MONITOR", "velocity", "MOMENT", "uv">>
Kraw == <<"MONITOR", "velocity", "raw", "u">>
Ksubiter == <<"MONITOR", "pressure", "subiter-scalar", "convergence">>
Kscalar == <<"MONITOR", "pressure", "norm">>
Kshort == <<"MONITOR", "dt">>
Kunknown == <<"MONITOR", "velocity", "moment", "w">>

Analytics(key, spec, order, second_state) ==
  [key |-> key, spec |-> spec, order |-> order,
   second_state |-> second_state]

StateAnalytics(state_name, analytics) ==
  [state_name |-> state_name, analytics |-> analytics]

MeanAndRaw ==
  <<StateAnalytics(<<"u">>, <<Analytics(Kmoment, "moment_statistic", 1, <<>>),
                              Analytics(Kraw, "raw_state", 0, <<>>)>>)>>

CrossMoment(second) ==
  <<StateAnalytics(<<"v">>, <<Analytics(Kraw, "raw_state", 0, <<>>)>>),
    StateAnalytics(<<"u">>,
      <<Analytics(Kcross, "moment_statistic", 2, <<second>>)>>)>>

Unsupported ==
  <<StateAnalytics(<<"u">>, <<Analytics(Kmoment, "moment_statistic", 1, <<>>),
                              Analytics(Kraw, "None", 0, <<>>)>>)>>

\* the raw state first, then a moment whose second state is never supplied
RawThenCross ==
  <<StateAnalytics(<<"u">>,
      <<Analytics(Kraw, "raw_state", 0, <<>>),
        Analytics(Kcross, "moment_statistic", 2, <<<<"w">>>>)>>)>>

\* two state_analytics entries of the same state
RepeatedState ==
  <<StateAnalytics(<<"u">>, <<Analytics(Kmoment, "moment_statistic", 1, <<>>)>>),
    StateAnalytics(<<"u">>, <<Analytics(Kraw, "raw_state", 0, <<>>)>>)>>

TimeAveraging(start, end) ==
  <<[start_time_seconds |-> start, end_time_seconds |-> end]>>

MonitorParams(dims, keys, analytics, averaging, dt, with_step, feed_back) ==
  [nx |-> 4, ny |-> 3, nz |-> 3, halo_width |-> 1, corrector_nit |-> 2,
   dt |-> dt, periodic_dims |-> dims,
   helper_var_keys |-> keys,
   monitor_spec |-> [state_analytics |-> analytics,
                     time_averaging |-> averaging],
   with_step |-> with_step, feed_back |-> feed_back]

HelperKeys == <<Ksubiter, <<"zz">>, Kscalar>>

ZPlanes == <<TRUE, TRUE, FALSE>>

XLines == <<FALSE, TRUE, TRUE>>

MonitorConfigs ==
  {MonitorParams(ZPlanes, HelperKeys, MeanAndRaw, <<>>, 1, TRUE, TRUE),
   MonitorParams(ZPlanes, HelperKeys, MeanAndRaw,
                 TimeAveraging(<<>>, <<>>), 1, TRUE, TRUE),
   MonitorParams(ZPlanes, HelperKeys, MeanAndRaw,
                 TimeAveraging(<<2>>, <<5>>), 2, TRUE, TRUE),
   MonitorParams(XLines, <<>>, CrossMoment(<<"v">>),
                 TimeAveraging(<<1>>, <<>>), 1, TRUE, TRUE),
   MonitorParams(XLines, <<>>, CrossMoment(<<"w">>), <<>>, 1, TRUE, TRUE),
   MonitorParams(ZPlanes, HelperKeys, MeanAndRaw,
                 TimeAveraging(<<>>, <<2>>), 1, FALSE, TRUE),
   MonitorParams(ZPlanes, HelperKeys, MeanAndRaw, <<>>, 1, TRUE, FALSE),
   MonitorParams(<<>>, HelperKeys, MeanAndRaw, <<>>, 1, TRUE, TRUE),
   MonitorParams(<<>>, <<Kmoment>>, <<>>, <<>>, 1, TRUE, TRUE),
   MonitorParams(ZPlanes, HelperKeys, Unsupported, <<>>, 1, TRUE, TRUE),
   MonitorParams(ZPlanes, <<Kshort>>, MeanAndRaw, <<>>, 1, TRUE, TRUE),
   MonitorParams(ZPlanes, HelperKeys, RawThenCross, <<>>, 1, TRUE, TRUE),
   MonitorParams(ZPlanes, HelperKeys, RepeatedState, <<>>, 1, TRUE, TRUE)}

\* the fields u and v of one step
MField(p, seed, name) ==
  Eager([z \in 1..p.nz |-> [x \in 1..p.nx |-> [y \in 1..p.ny |->
    IF name = <<"u">> THEN R(seed * x + z) ELSE R(y - seed)]]])

MFields(p, seed) ==
  <<[k |-> <<"u">>, v |-> MField(p, seed, <<"u">>)],
    [k |-> <<"v">>, v |-> MField(p, seed, <<"v">>)]>>

\* the values update is called with
Ones(shape) == Tensor(shape, [i \in 1..Product(shape) |-> R(1)])

UpdateValues(p) ==
  {Ones(<<>>), Ones(<<1, 1>>), Ones(<<p.corrector_nit>>),
   Ones(<<p.nz - 2 * p.halo_width, 1, 1>>), Ones(<<p.nz, p.nx, p.ny>>)}

NoCall == [op |-> "none", status |-> "none", updated |-> FALSE]

InitMonitor ==
  /\ mparams \in MonitorConfigs
  /\ monitor = NoObject("none")
  /\ mstates = <<>>
  /\ step = 0
  /\ mout = NoCall
  /\ mhist = <<>>
  /\ replicas = <<>> /\ params = <<>> /\ states = <<>>
  /\ additional_states = <<>> /\ result = <<>> /\ reduced = <<>>
  /\ config = <<>> /\ obj = <<>> /\ phi = <<>> /\ flow = <<>>
  /\ helper = <<>> /\ cloud_gain = 0 /\ out = <<>>
  /\ NoAdjustment

\* Monitor(params); the helper variables start from the monitor data
MonitorInit ==
  /\ monitor = NoObject("none")
  /\ monitor' = Monitor_init(mparams)
  /\ mstates' = IF monitor'.status = "constructed" /\ mparams.feed_back
                THEN monitor'.data ELSE <<>>
  /\ UNCHANGED <<mparams, step, mout, mhist>>
  /\ UNCHANGED outflowVars
  /\ UNCHANGED sourceVars
  /\ UNCHANGED adjust

\* the statistics of the step's fields, per key: what the processors give
\* before any averaging
StepStatistics(m, mstates_) ==
  LET work == Work(m, [i \in 1..Len(mstates_) |-> mstates_[i].k])
      ok == SelectSeq(work, LAMBDA item :
              Processor(m.params, item.v, mstates_).status = "ok")
  IN [i \in 1..Len(ok) |->
        [k |-> ok[i].k,
         v |-> Processor(m.params, ok[i].v, mstates_).value]]

\* one step of the simulation with the compute_analytics call
ComputeAnalyticsWith(states_in, step_) ==
  LET res == compute_analytics(monitor, states_in, step_)
  IN /\ monitor' = [monitor EXCEPT !.data = res.data]
     /\ mstates' = IF res.status = "returned"
                   THEN DictUpdate(states_in, res.monitor_vars)
                   ELSE states_in
     /\ mout' = [op |-> "compute_analytics", status |-> res.status,
                 updated |-> mout.updated, step |-> step,
                 before |-> monitor.data, states |-> states_in,
                 monitor_vars |-> res.monitor_vars]
     /\ mhist' = Append(mhist, StepStatistics(monitor, states_in))
     /\ step' = step + 1

ComputeAnalytics ==
  /\ monitor.status = "constructed"
  /\ step < MaxStep
  /\ \E seed \in FieldSeeds :
       ComputeAnalyticsWith(DictUpdate(mstates, MFields(mparams, seed)),
                            IF mparams.with_step THEN <<step>> ELSE <<>>)
  /\ UNCHANGED mparams
  /\ UNCHANGED outflowVars
  /\ UNCHANGED sourceVars
  /\ UNCHANGED adjust

\* a direct call of update
MonitorUpdate ==
  /\ monitor.status = "constructed"
  /\ ~mout.updated
  /\ \E varname \in DictKeys(monitor.data) \cup {Kunknown},
        value \in UpdateValues(mparams) :
       LET res == Monitor_update(monitor.data, varname, value)
       IN /\ monitor' = [monitor EXCEPT !.data = res.data]
          /\ mout' = [op |-> "update", status |-> res.status,
                      updated |-> TRUE, varname |-> varname,
                      value |-> value, before |-> monitor.data]
  /\ UNCHANGED <<mparams, mstates, step, mhist>>
  /\ UNCHANGED outflowVars
  /\ UNCHANGED sourceVars
  /\ UNCHANGED adjust

NextMonitor ==
  \/ MonitorInit
  \/ ComputeAnalytics
  \/ MonitorUpdate

MonitorSpec == InitMonitor /\ [][NextMonitor]_vars

(***************************************************************************)
(* Claims about the Monitor.                                               *)
(***************************************************************************)
UpdateCalled == mout.op = "update"

AnalyticsCalled == mout.op = "compute_analytics"

\* value.shape of a tensor; a Python list has none
ShapeOf(value) == IF value.py = "tensor" THEN <<value.shape>> ELSE <<>>

UpdateRejects ==
  \/ ~DictHas(mout.before, mout.varname)
  \/ ShapeOf(mout.value) # ShapeOf(DictGet(mout.before, mout.varname))

\* C15: update(varname, value) raises ValueError when varname is not a
\* requested analytical quantity or the shape of value differs from the
\* shape of the cached value, and then leaves the monitor data as it was;
\* otherwise it replaces the entry of varname and no other entry.
C15_UpdateContract ==
  UpdateCalled =>
    IF UpdateRejects
    THEN mout.status = "ValueError" /\ monitor.data = mout.before
    ELSE /\ mout.status = "returned"
         /\ monitor.data = DictSet(mout.before, mout.varname, mout.value)

AnalyticsReturned == AnalyticsCalled /\ mout.status = "returned"

\* the step of the last call lies in the averaging window
InWindow ==
  /\ monitor.time_averaging
  /\ mparams.with_step
  /\ mout.step >= monitor.averaging_start_step
  /\ \/ monitor.averaging_end_step = <<>>
     \/ mout.step <= monitor.averaging_end_step[1]

\* the statistic of key at step s, before averaging
StatisticAt(s, key) == DictGet(mhist[s + 1], key)

\* the arithmetic mean of the statistics of key over the steps from..to
MeanOfSteps(key, from, to) ==
  LET last == StatisticAt(to, key)
  IN Tensor(last.shape, [i \in 1..Len(last.v) |->
       RDiv(ReduceSum([s \in 1..(to - from + 1) |->
                         StatisticAt(from + s - 1, key).v[i]]),
            R(to - from + 1))])

\* C16: with time averaging and compute_analytics called once per step, the
\* returned values fed back as states[key], the analytic stored after a step
\* of the averaging window is the arithmetic mean of the statistics of the
\* window's steps so far.
C16_RunningMean ==
  AnalyticsReturned /\ InWindow /\ mparams.feed_back =>
    \A key \in DictKeys(mout.monitor_vars) :
      DictGet(monitor.data, key) =
        MeanOfSteps(key, monitor.averaging_start_step, mout.step)

\* the third step of a window stored a mean that is not the step's statistic
C16_Witness ==
  /\ AnalyticsReturned /\ InWindow /\ mparams.feed_back
  /\ mout.step >= monitor.averaging_start_step + 2
  /\ \E key \in DictKeys(mout.monitor_vars) :
       /\ DictGet(monitor.data, key) # StatisticAt(mout.step, key)
       /\ DictGet(monitor.data, key) =
            MeanOfSteps(key, monitor.averaging_start_step, mout.step)

\* the analytics keys of the states of the last call that have processors
KeysOfStates ==
  UNION {DictKeys(DictGet(monitor.processors, name)) :
           name \in {n \in DictKeys(mout.states) :
                       DictHas(monitor.processors, n)}}

\* C17: compute_analytics returns a dict with all the monitor variables it
\* updated: every analytics key of every state in states that has processors
\* is in the returned dict, the monitor data hold the returned value for it,
\* and nothing else in the monitor data changes.
C17_ReturnsUpdated ==
  AnalyticsCalled =>
    /\ mout.status = "returned"
    /\ \A key \in KeysOfStates :
         /\ DictHas(mout.monitor_vars, key)
         /\ DictGet(monitor.data, key) = DictGet(mout.monitor_vars, key)
    /\ \A key \in DictKeys(mout.before) \ KeysOfStates :
         DictGet(monitor.data, key) = DictGet(mout.before, key)
    /\ DictKeys(monitor.data) = DictKeys(mout.before)

(***************************************************************************)
(* More claims about the source functions.                                 *)
(***************************************************************************)
\* the thermodynamic state the evaluation of a TotalEnergy object uses
UsedThermodynamics(sl) ==
  TotalEnergy_get_thermodynamic_variables(obj[sl], phi, flow, helper)

\* the thermodynamic state of the same phi and states when the helper
\* variables hold no T and no theta
FreshThermodynamics(sl) ==
  TotalEnergy_get_thermodynamic_variables(
    obj[sl], phi, flow, Restrict(helper, {"T", "theta"}))

\* C18: a TotalEnergy evaluation computes temperature, potential temperature
\* and total enthalpy from the current phi and states through the
\* thermodynamics model and takes none of them from additional_states: with
\* other T and theta entries there, it uses the same values.
C18_FreshThermodynamicState ==
  \A sl \in Slots :
    Returned(sl, "TotalEnergy") =>
      /\ UsedThermodynamics(sl).T = FreshThermodynamics(sl).T
      /\ UsedThermodynamics(sl).theta = FreshThermodynamics(sl).theta
      /\ UsedThermodynamics(sl).h_t = FreshThermodynamics(sl).h_t
      /\ Called(sl, "saturation_adjustment")

(***************************************************************************)
(* The saturation adjustment of the water thermodynamics model: the        *)
(* temperature iteration that total_energy.py line 133 and                 *)
(* potential_temperature.py line 104 call.  The iteration runs until       *)
(* |dT| < temperature_tolerance or max_temperature_iterations iterations   *)
(* are done; without convergence a warning is logged and the last iterate  *)
(* is returned.  The residual stands for a closure whose correction        *)
(* overshoots the root by the factor gain: the error shrinks for a gain    *)
(* below 2 and does not for a gain of 2 or more.                           *)
(***************************************************************************)
MaxIterations == 4

Tolerances == {R(1), Norm(1, 4)}

Gains == {Norm(1, 2), R(1), R(2), R(3)}

InitialErrors == {R(-8), R(-1), R(0), R(3)}

RAbs(a) == [n |-> Abs(a.n), d |-> a.d]

RLess(a, b) == a.n * b.d < b.n * a.d

\* the correction of one iteration at temperature T
Correction(a, T) == RMul(a.gain, RSub(a.target, T))

\* |dT| < temperature_tolerance, once a correction has been made
Converged(a) == a.dT # <<>> /\ RLess(RAbs(a.dT[1]), a.temperature_tolerance)

\* the loop condition
ShouldIterate(a) ==
  a.iterations < a.max_temperature_iterations /\ ~Converged(a)

\* non-convergence raises
Outcome_Fatal(converged) ==
  IF converged THEN "returned" ELSE "NonConvergenceError"

\* how the routine ends: it returns, converged or not
Outcome(converged) == "returned"

InitAdjustment ==
  /\ \E max \in 1..MaxIterations, tol \in Tolerances, gain \in Gains,
        err \in InitialErrors :
       adjust = [status |-> "iterating", T |-> RAdd(R(280), err),
                 target |-> R(280), gain |-> gain, dT |-> <<>>,
                 iterations |-> 0, warning |-> FALSE,
                 max_temperature_iterations |-> max,
                 temperature_tolerance |-> tol]
  /\ replicas = <<>> /\ params = <<>> /\ states = <<>>
  /\ additional_states = <<>> /\ result = <<>> /\ reduced = <<>>
  /\ config = <<>> /\ obj = <<>> /\ phi = <<>> /\ flow = <<>>
  /\ helper = <<>> /\ cloud_gain = 0 /\ out = <<>>
  /\ NoMonitor

\* one iteration
Iterate ==
  /\ adjust.status = "iterating"
  /\ ShouldIterate(adjust)
  /\ adjust' = [adjust EXCEPT
                  !.dT = <<Correction(adjust, adjust.T)>>,
                  !.T = RAdd(adjust.T, Correction(adjust, adjust.T)),
                  !.iterations = @ + 1]
  /\ UNCHANGED <<outflowVars, sourceVars, monitorVars>>

\* the loop is left and the last iterate returned
Return ==
  /\ adjust.status = "iterating"
  /\ ~ShouldIterate(adjust)
  /\ adjust' = [adjust EXCEPT !.status = Outcome(Converged(adjust)),
                              !.warning = ~Converged(adjust)]
  /\ UNCHANGED <<outflowVars, sourceVars, monitorVars>>

NextAdjustment ==
  \/ Iterate
  \/ Return

AdjustmentSpec ==
  InitAdjustment /\ [][NextAdjustment]_vars /\ WF_vars(NextAdjustment)

\* C19: the saturation adjustment terminates: it iterates only while the
\* tolerance is not met and fewer than max_temperature_iterations iterations
\* are done, and then returns the last iterate without raising, converged or
\* not.
C19_AdjustmentTerminates ==
  /\ <>(adjust.status = "returned")
  /\ [](adjust.status \in {"iterating", "returned"})
  /\ [](adjust.iterations <= adjust.max_temperature_iterations)
  /\ [](adjust.status = "returned" =>
          \/ Converged(adjust)
          \/ adjust.iterations = adjust.max_temperature_iterations)
  /\ [][adjust'.iterations # adjust.iterations => ~Converged(adjust)]_vars

\* the iterations ran out without convergence and the routine returned
C19_Witness ==
  /\ adjust.status = "returned"
  /\ ~Converged(adjust)
  /\ adjust.warning
  /\ adjust.iterations = adjust.max_temperature_iterations

(***************************************************************************)
(* The generic scalar update of equations/scalars.py, which                *)
(* equations/scalars_test.py calls as _generic_scalar_update(replica_id,   *)
(* replicas, scalar_name, states, additional_states, dbg): it returns the  *)
(* right-hand side of the scalar's transport equation, or in debug mode    *)
(* its terms.  Convection and diffusion stand for the schemes of the      *)
(* library: the central difference of the flux rho_u * phi and of          *)
(* rho * diffusivity * dphi.  The source is the source_fn of the scalar's  *)
(* object.                                                                 *)
(***************************************************************************)
\* the right-hand side of one point, with all terms added
Rhs_AllAdded(conv_x, conv_y, conv_z, diff_x, diff_y, diff_z, source) ==
  RAdd(RAdd(RAdd(RAdd(conv_x, conv_y), conv_z),
            RAdd(RAdd(diff_x, diff_y), diff_z)), source)

\* the right-hand side of one point from the terms of the point
Rhs(conv_x, conv_y, conv_z, diff_x, diff_y, diff_z, source) ==
  RAdd(RAdd(RNeg(RAdd(RAdd(conv_x, conv_y), conv_z)),
            RAdd(RAdd(diff_x, diff_y), diff_z)), source)

\* scalars_test.py lines 226-245: the terms the debug mode returns at the
\* point [1][1, 1] of the fixture
TestTerms ==
  [conv_x |-> Norm(5, 100), conv_y |-> Norm(-12, 10), conv_z |-> Norm(1, 10),
   diff_x |-> R(0), diff_y |-> R(0), diff_z |-> Norm(-24, 1000),
   source |-> R(0)]

\* scalars_test.py line 200: the right-hand side at the same point
TestRhs == Norm(1026, 1000)

Velocities == <<"u", "v", "w">>

Convection(p, st, h, dim) ==
  Derivative(FMul(FMul(st["rho"], st[Velocities[dim + 1]]), p), dim,
             h[dim + 1])

Diffusion(p, st, ad, h, dim) ==
  Derivative(FMul(FMul(st["rho"], ad["diffusivity"]),
                  Derivative(p, dim, h[dim + 1])), dim, h[dim + 1])

\* the source term: source_fn of the scalar's object
SourceTerm(self, p, st, ad) ==
  IF self.cls = "PotentialTemperature"
  THEN PotentialTemperature_source_fn(self, p, st, ad).value
  ELSE ScalarGeneric_source_fn(self, p, st, ad).value

Terms(self, p, st, ad) ==
  [conv_x |-> Convection(p, st, self.h, 0),
   conv_y |-> Convection(p, st, self.h, 1),
   conv_z |-> Convection(p, st, self.h, 2),
   diff_x |-> Diffusion(p, st, ad, self.h, 0),
   diff_y |-> Diffusion(p, st, ad, self.h, 1),
   diff_z |-> Diffusion(p, st, ad, self.h, 2),
   source |-> SourceTerm(self, p, st, ad)]

\* the right-hand side field of the terms
Assemble(t) ==
  Eager([z \in 1..Len(t.source) |-> [x \in 1..Len(t.source[z]) |->
    [y \in 1..Len(t.source[z][x]) |->
       Rhs(t.conv_x[z][x][y], t.conv_y[z][x][y], t.conv_z[z][x][y],
           t.diff_x[z][x][y], t.diff_y[z][x][y], t.diff_z[z][x][y],
           t.source[z][x][y])]]])

\* scalar_rhs(phi) of _generic_scalar_update(..., dbg)
_generic_scalar_update(self, p, st, ad, dbg) ==
  [status |-> "returned",
   value |-> IF dbg THEN Terms(self, p, st, ad)
             ELSE Assemble(Terms(self, p, st, ad)),
   calls |-> <<>>, reads |-> {}, f_r |-> <<>>]

UpdateConfigs ==
  {c \in ScalarGenericConfigs : c.configured}
  \cup {c \in PotentialTemperatureConfigs :
          /\ c.scalar_name = "theta_li" /\ c.model = "water"
          /\ c.g_dim = <<2>> /\ c.has_field}

Diffusivities == {0, 1, 2}

\* the update is evaluated in normal mode for slot A and in debug mode for
\* slot B, on the same fields
Dbg(sl) == sl = "B"

InitScalarUpdate ==
  /\ \E c \in UpdateConfigs, sc \in Scenarios, d \in Diffusivities :
       /\ config = [sl \in Slots |-> c]
       /\ phi = ScenarioPhi(sc)
       /\ flow = ScenarioStates(sc)
       /\ helper = [k \in DOMAIN ScenarioHelpers(sc) \cup {"diffusivity"} |->
                      IF k = "diffusivity" THEN SField(sc.shape, d, 0, d, 0)
                      ELSE ScenarioHelpers(sc)[k]]
       /\ cloud_gain = sc.gain
  /\ obj = [sl \in Slots |-> NotConstructed]
  /\ out = [sl \in Slots |-> NotCalled]
  /\ replicas = <<>> /\ params = <<>> /\ states = <<>>
  /\ additional_states = <<>> /\ result = <<>> /\ reduced = <<>>
  /\ NoMonitor
  /\ NoAdjustment

GenericScalarUpdate(sl) ==
  /\ obj[sl].status = "constructed"
  /\ out[sl] = NotCalled
  /\ out' = [out EXCEPT ![sl] =
               _generic_scalar_update(obj[sl], phi, flow, helper, Dbg(sl))]
  /\ UNCHANGED <<config, obj, phi, flow, helper, cloud_gain>>
  /\ UNCHANGED outflowVars
  /\ UNCHANGED monitorVars
  /\ UNCHANGED adjust

NextScalarUpdate ==
  \E sl \in Slots :
    \/ ScalarGenericInit(sl)
    \/ PotentialTemperatureInit(sl)
    \/ GenericScalarUpdate(sl)

ScalarUpdateSpec == InitScalarUpdate /\ [][NextScalarUpdate]_vars

BothModes ==
  out["A"].status = "returned" /\ out["B"].status = "returned"

NonZero(f) == ~IsZeroField(f)

\* C20: the right-hand side the generic scalar update returns in normal mode
\* is, point by point, minus the sum of the three convection terms plus the
\* sum of the three diffusion terms plus the source term that the debug mode
\* returns for the same inputs, and it has as many slices as the scalar; the
\* values the tests expect at their probe point satisfy the same relation.
C20_RhsOfTerms ==
  /\ Rhs(TestTerms.conv_x, TestTerms.conv_y, TestTerms.conv_z,
         TestTerms.diff_x, TestTerms.diff_y, TestTerms.diff_z,
         TestTerms.source) = TestRhs
  /\ BothModes =>
       /\ out["A"].value =
            FAdd(FAdd(FNeg(FAdd(FAdd(out["B"].value.conv_x,
                                     out["B"].value.conv_y),
                                out["B"].value.conv_z)),
                      FAdd(FAdd(out["B"].value.diff_x,
                                out["B"].value.diff_y),
                           out["B"].value.diff_z)),
                 out["B"].value.source)
       /\ Len(out["A"].value) = Len(phi)

\* both modes were evaluated with convection, diffusion and source at work
C20_Witness ==
  /\ BothModes
  /\ NonZero(out["B"].value.conv_x) /\ NonZero(out["B"].value.conv_z)
  /\ NonZero(out["B"].value.diff_z) /\ NonZero(out["B"].value.source)
  /\ NonZero(out["A"].value)

(***************************************************************************)
(* The terms of TotalEnergy.source_fn, recomputed from the arguments of    *)
(* the call and the flags of the object.                                   *)
(***************************************************************************)
GravityAxis(sl) == obj[sl].g_dim[1] + 1

\* the u.tau contractions of the shear stress
Contractions(sl) ==
  RhoUTau(flow, shear_stress(Viscosity(obj[sl], flow, helper), obj[sl].h,
                             flow["u"], flow["v"], flow["w"]))

LiquidOf(thermo) ==
  equilibrium_phase_partition(thermo.T, flow["rho_thermal"], thermo.q_t)[1]

\* the radiative flux f_r
FluxOf(sl, thermo) ==
  source_by_radiation(LiquidOf(thermo), flow["rho_thermal"], thermo.zz,
                      obj[sl].h[GravityAxis(sl)], obj[sl].g_dim[1])

\* the vector whose divergence is taken: the contractions, with rho * f_r
\* taken off the gravity component when there is radiation
ExpectedDivTerms(sl, contractions, f_r) ==
  [i \in 1..3 |->
     IF obj[sl].include_radiation /\ i = GravityAxis(sl)
     THEN FSub(contractions[i], FMul(flow["rho"], f_r))
     ELSE contractions[i]]

SubsidencePart(sl, zz, scalar) ==
  IF obj[sl].include_subsidence
  THEN source_by_subsidence_velocity(
         flow["rho"], zz, obj[sl].h[GravityAxis(sl)], scalar,
         obj[sl].g_dim[1])
  ELSE zeros_like(phi)

\* (e + pe) * rho * rate
Conversion(thermo, e, rate) ==
  FMul(FMul(FAdd(e, FScale(G, thermo.zz)), flow["rho"]), rate)

CondensateOf(thermo) ==
  saturation_excess(thermo.T, flow["rho_thermal"], thermo.q_t)

EvaporationRate(thermo, q_l, q_c) ==
  evaporation(flow["rho_thermal"], thermo.T, flow["q_r"],
              FSub(thermo.q_t, q_c), q_l, q_c)

\* the vapor and liquid phase-conversion terms
PrecipitationPart(sl, thermo) ==
  IF obj[sl].include_precipitation
  THEN FAdd(Conversion(thermo, internal_energy_components(thermo.T)[1],
                       FNeg(EvaporationRate(thermo, LiquidOf(thermo),
                                            CondensateOf(thermo)))),
            Conversion(thermo, internal_energy_components(thermo.T)[2],
                       autoconversion_and_accretion(flow["q_r"],
                                                    LiquidOf(thermo))))
  ELSE zeros_like(phi)

\* what TotalEnergy.source_fn is to return
ExpectedSource(sl, thermo) ==
  FAdd(FAdd(divergence(ExpectedDivTerms(sl, Contractions(sl),
                                        FluxOf(sl, thermo)), obj[sl].h),
            SubsidencePart(sl, thermo.zz, thermo.h_t)),
       PrecipitationPart(sl, thermo))

\* the position of the first call of fn, 0 without one
Position(sl, fn) ==
  IF Called(sl, fn)
  THEN CHOOSE i \in 1..Len(out[sl].calls) :
         /\ out[sl].calls[i].fn = fn
         /\ \A j \in 1..(i - 1) : out[sl].calls[j].fn # fn
  ELSE 0

\* fn is called exactly when wanted, and then after the call of before
CalledInOrder(sl, fn, wanted, before) ==
  /\ Called(sl, fn) <=> wanted
  /\ wanted => Position(sl, before) < Position(sl, fn)

\* C21: for every combination of the radiation, subsidence and precipitation
\* flags, TotalEnergy.source_fn returns the divergence of the u.tau vector,
\* corrected for radiation iff radiation is on, plus the subsidence term iff
\* subsidence is on, plus the vapor and liquid conversion terms iff
\* precipitation is on; the steps run in this order, the radiation routine
\* before the divergence, and a term that is off is not computed.
C21_TermsOfFlags ==
  \A sl \in Slots :
    Returned(sl, "TotalEnergy") =>
      /\ out[sl].value = ExpectedSource(sl, UsedThermodynamics(sl))
      /\ Position(sl, "shear_stress") < Position(sl, "divergence")
      /\ Called(sl, "source_by_radiation") <=> obj[sl].include_radiation
      /\ obj[sl].include_radiation =>
           Position(sl, "source_by_radiation") < Position(sl, "divergence")
      /\ CalledInOrder(sl, "source_by_subsidence_velocity",
                       obj[sl].include_subsidence, "divergence")
      /\ CalledInOrder(sl, "internal_energy_components",
                       obj[sl].include_precipitation, "divergence")
      /\ obj[sl].include_subsidence /\ obj[sl].include_precipitation =>
           Position(sl, "source_by_subsidence_velocity")
             < Position(sl, "internal_energy_components")
      /\ CalledInOrder(sl, "evaporation", obj[sl].include_precipitation,
                       "internal_energy_components")

\* the flags of the object of slot sl
FlagsOf(sl) ==
  <<obj[sl].include_radiation, obj[sl].include_subsidence,
    obj[sl].include_precipitation>>

\* an evaluation with all three terms at work and one without radiation
C21_Witness ==
  /\ Returned("A", "TotalEnergy") /\ Returned("B", "TotalEnergy")
  /\ FlagsOf("A") = <<TRUE, TRUE, TRUE>>
  /\ FlagsOf("B") = <<FALSE, TRUE, TRUE>>
  /\ NonZero(SubsidencePart("A", UsedThermodynamics("A").zz,
                             UsedThermodynamics("A").h_t))
  /\ NonZero(PrecipitationPart("A", UsedThermodynamics("A")))
  /\ out["A"].value # out["B"].value

\* C22: with radiation, rho * f_r is taken off the gravity component only of
\* the vector handed to the divergence; the two other components are the
\* u.tau contractions of the shear stress as they are.
C22_RadiationOnGravityAxis ==
  \A sl \in Slots :
    Returned(sl, "TotalEnergy") /\ obj[sl].include_radiation =>
      LET rho_u_tau == Contractions(sl)
          f_r == FluxOf(sl, UsedThermodynamics(sl))
          div_terms == DivTerms(obj[sl], flow, rho_u_tau, f_r)
      IN \A i \in 1..3 :
           div_terms[i] = IF i = GravityAxis(sl)
                          THEN FSub(rho_u_tau[i], FMul(flow["rho"], f_r))
                          ELSE rho_u_tau[i]

\* radiation changed the gravity component, and the others are not zero
C22_Witness ==
  \E sl \in Slots :
    /\ Returned(sl, "TotalEnergy") /\ obj[sl].include_radiation
    /\ LET rho_u_tau == Contractions(sl)
           div_terms == DivTerms(obj[sl], flow, rho_u_tau,
                                 FluxOf(sl, UsedThermodynamics(sl)))
       IN /\ div_terms[GravityAxis(sl)] # rho_u_tau[GravityAxis(sl)]
          /\ \E i \in 1..3 :
               i # GravityAxis(sl) /\ NonZero(rho_u_tau[i])

\* the object of slot sl is a TotalEnergy or a PotentialTemperature whose
\* source_fn has been called
Evaluated(sl) ==
  /\ obj[sl].status = "constructed"
  /\ obj[sl].cls \in {"TotalEnergy", "PotentialTemperature"}
  /\ out[sl] # NotCalled

\* the routine that only the given optional term calls
RoutineOf(term) ==
  IF term = "radiation" THEN "source_by_radiation"
  ELSE IF term = "subsidence" THEN "source_by_subsidence_velocity"
  ELSE "internal_energy_components"

\* the flag of the term in the sub-record of the scalar's configuration
Configured(c, term) ==
  /\ c.has_field
  /\ IF term = "radiation" THEN c.include_radiation
     ELSE IF term = "subsidence" THEN c.include_subsidence
     ELSE c.include_precipitation
  /\ c.g_dim # <<>>

\* self._h[self._g_dim], div_terms[self._g_dim] and
\* self._grad_central[self._g_dim] stand in the radiation and subsidence
\* blocks only, next to the calls of their routines
IndexesGravityAxis(sl, term) ==
  term \in {"radiation", "subsidence"} /\ Called(sl, RoutineOf(term))

OptionalTerms == {"radiation", "subsidence", "precipitation"}

\* C23: an optional term (radiation, subsidence, precipitation) of
\* TotalEnergy or PotentialTemperature is active only if the configuration of
\* the scalar has the sub-record, the flag in it is set and there is a gravity
\* axis; if one of the three fails, the term is not computed and does not use
\* g_dim as an index.
C23_OptionalTermGuards ==
  \A sl \in Slots : \A term \in OptionalTerms :
    Evaluated(sl) /\ ~Configured(config[sl], term) =>
      /\ ~Called(sl, RoutineOf(term))
      /\ ~IndexesGravityAxis(sl, term)
      /\ out[sl].status \in {"returned", "KeyError"}
      /\ obj[sl].g_dim = <<>> =>
           \A t \in OptionalTerms : ~IndexesGravityAxis(sl, t)

\* the flags are set but there is no gravity axis, and the evaluation
\* returned without the terms
C23_Witness ==
  /\ \E sl \in Slots :
       /\ Evaluated(sl) /\ out[sl].status = "returned"
       /\ config[sl].has_field /\ config[sl].include_subsidence
       /\ config[sl].include_radiation
       /\ config[sl].g_dim = <<>>
       /\ \A term \in OptionalTerms : ~Called(sl, RoutineOf(term))

\* TotalEnergy._get_scalar_for_convection(phi, states, additional_states)
TotalEnergy_get_scalar_for_convection(self, p, st, ad) ==
  TotalEnergy_get_thermodynamic_variables(self, p, st, ad).h_t

\* TotalEnergy._get_scalar_for_diffusion(phi, states, additional_states)
TotalEnergy_get_scalar_for_diffusion(self, p, st, ad) ==
  TotalEnergy_get_thermodynamic_variables(self, p, st, ad).h_t

\* the field handed to source_by_subsidence_velocity
SubsidenceField(sl) ==
  out[sl].calls[Position(sl, "source_by_subsidence_velocity")].arg

\* what the TotalEnergy object of slot sl returns with its subsidence flag off
TotalEnergyWithoutSubsidence(sl) ==
  TotalEnergy_source_fn([obj[sl] EXCEPT !.include_subsidence = FALSE],
                        phi, flow, helper).value

\* the subsidence term of the given scalar, of states['rho'] and of zz, on
\* the gravity axis
SubsidenceTermOf(sl, scalar) ==
  source_by_subsidence_velocity(flow["rho"], GetZz(phi, helper),
                                obj[sl].h[GravityAxis(sl)], scalar,
                                obj[sl].g_dim[1])

\* C24: the subsidence term of TotalEnergy.source_fn is computed from the
\* total enthalpy h_t, which is what the convection hook and the diffusion
\* hook return, and not from phi; the subsidence term of
\* PotentialTemperature.source_fn is computed from phi.  Both use
\* states['rho'] and the height zz on the gravity axis.
C24_SubsidenceScalar ==
  \A sl \in Slots :
    /\ Returned(sl, "TotalEnergy") /\ obj[sl].include_subsidence =>
         LET h_t == TotalEnergy_get_scalar_for_convection(obj[sl], phi, flow,
                                                          helper)
         IN /\ h_t = TotalEnergy_get_scalar_for_diffusion(obj[sl], phi, flow,
                                                          helper)
            /\ SubsidenceField(sl) = h_t
            /\ out[sl].value = FAdd(TotalEnergyWithoutSubsidence(sl),
                                    SubsidenceTermOf(sl, h_t))
    /\ Returned(sl, "PotentialTemperature") /\ SubsidenceApplies(obj[sl]) =>
         /\ SubsidenceField(sl) = phi
         /\ out[sl].value = FAdd(WithoutSubsidence(sl),
                                 SubsidenceTermOf(sl, phi))

\* a TotalEnergy evaluation whose subsidence term is not the one of phi
C24_Witness ==
  \E sl \in Slots :
    /\ Returned(sl, "TotalEnergy") /\ obj[sl].include_subsidence
    /\ SubsidenceField(sl) # phi
    /\ NonZero(SubsidenceTermOf(sl, SubsidenceField(sl)))
    /\ SubsidenceTermOf(sl, SubsidenceField(sl)) # SubsidenceTermOf(sl, phi)

\* dt * u_max / dx of the maximum replica r reduced, whatever its value
CourantNumber(r) == RDiv(RMul(params.dt, reduced[r].u_max), params.dx)

\* C25: the outflow update does not clamp c = dt*u_max/dx: for every value
\* of c, c > 1 and c < 0 included, the weight of the old buffer is 1 - c and
\* the weight of the upstream value is c, the two sum to 1, every matched
\* buffer is the mass-flux factor times (1-c)*old + c*upstream, and the
\* value of c raises no error: the update returns whenever every field it
\* looks up is present.
C25_NoClamping ==
  \A r \in ReplicaIds :
    result[r].status # "pending" =>
      /\ result[r].status = "returned" <=> ~RaisesKeyError(r)
      /\ result[r].status = "returned" =>
           LET c == CourantNumber(r)
           IN /\ coeff(r) = RSub(R(1), c)
              /\ RSub(R(1), coeff(r)) = c
              /\ RAdd(coeff(r), RSub(R(1), coeff(r))) = R(1)
              /\ \A key \in DOMAIN additional_states[r] :
                   ExactForm(key) =>
                     \A z \in 1..NZ, y \in 1..NY :
                       result[r].value[key][z][y] =
                         RMul(IF VarOf(key) = KEY_U
                              THEN RDiv(reduced[r].mass_inlet,
                                        reduced[r].mass_exit)
                              ELSE R(1),
                              ExpectedUpwind(r, key, c, z, y))

\* a returned update with c < 0 that changed the buffer of T
C25_Witness ==
  \E r \in ReplicaIds :
    /\ result[r].status = "returned"
    /\ K_bc_T \in DOMAIN additional_states[r]
    /\ CourantNumber(r).n < 0
    /\ \E z \in 1..NZ, y \in 1..NY :
         result[r].value[K_bc_T][z][y] # R(additional_states[r][K_bc_T][z][y])

\* states[key] of the last compute_analytics call
PrevStat(key) == DictGet(mout.states, key)

\* the statistic of the step of the last call taken into the average of the
\* window: prev + (statistic - prev) / (step - start + 1)
AveragedIn(key) ==
  LET statistic_k == StatisticAt(mout.step, key)
  IN Tensor(statistic_k.shape, [i \in 1..Len(statistic_k.v) |->
       Filtered(PrevStat(key).v[i], statistic_k.v[i],
                mout.step - monitor.averaging_start_step + 1)])

\* C26: the statistic of a step is taken into the time average exactly when
\* time averaging is configured, a step is supplied and the step lies in the
\* window from the start step to the end step (no end step: unbounded);
\* outside the window or without a step, the stored analytic is the
\* un-averaged statistic of the step.
C26_AveragingWindow ==
  AnalyticsReturned =>
    \A key \in DictKeys(mout.monitor_vars) :
      /\ DictGet(monitor.data, key) = DictGet(mout.monitor_vars, key)
      /\ DictGet(monitor.data, key) =
           IF InWindow THEN AveragedIn(key)
           ELSE StatisticAt(mout.step, key)

\* a step after the start of the window whose stored analytic is the running
\* average and not the step's statistic
C26_Witness ==
  /\ AnalyticsReturned /\ InWindow
  /\ mout.step > monitor.averaging_start_step
  /\ \E key \in DictKeys(mout.monitor_vars) :
       /\ DictGet(monitor.data, key) = AveragedIn(key)
       /\ DictGet(monitor.data, key) # StatisticAt(mout.step, key)

\* the constructor has run and nothing has been called since
JustConstructed == monitor.status # "none" /\ mout = NoCall

\* the helper variable keys that monitor_var_init takes as analytics
RequestedKeys ==
  {mparams.helper_var_keys[i] :
     i \in {j \in 1..Len(mparams.helper_var_keys) :
              MatchesMonitor(mparams.helper_var_keys[j])}}

\* every analytics spec of the monitor spec is of a supported type
SpecSupported ==
  \A i \in 1..Len(AllAnalytics(mparams.monitor_spec.state_analytics)) :
    Supported(AllAnalytics(mparams.monitor_spec.state_analytics)[i].spec)

\* a zero tensor, or a list of zero tensors
IsZeroValue(value) ==
  IF value.py = "tensor" THEN \A i \in 1..Len(value.v) : value.v[i] = R(0)
  ELSE \A i \in 1..Len(value.items) :
         \A j \in 1..Len(value.items[i].v) : value.items[i].v[j] = R(0)

\* C27: monitor_var_init initializes every requested analytic to zero: every
\* helper_var_key matching 'MONITOR_[\w+]' gets an entry with a zero value,
\* and no key makes it raise, keys of fewer than three '_'-separated
\* segments included.
C27_InitializesEveryKey ==
  JustConstructed /\ SpecSupported =>
    /\ monitor.status = "constructed"
    /\ \A key \in RequestedKeys :
         /\ DictHas(monitor.data, key)
         /\ IsZeroValue(DictGet(monitor.data, key))

\* self._data as the constructor left it
InitialData == Monitor_init(mparams).data

\* C28: in a constructed Monitor, after every sequence of update and
\* compute_analytics calls, failing ones included, the keys of Monitor.data
\* are the keys created at construction and every stored value has the shape
\* of its initial value.
C28_DataShapeInvariant ==
  monitor.status = "constructed" =>
    /\ DictKeys(monitor.data) = DictKeys(InitialData)
    /\ Len(monitor.data) = Len(InitialData)
    /\ \A key \in DictKeys(InitialData) :
         /\ DictGet(monitor.data, key).py = DictGet(InitialData, key).py
         /\ ShapeOf(DictGet(monitor.data, key)) =
              ShapeOf(DictGet(InitialData, key))

\* a direct update and a compute_analytics call have both stored values
C28_Witness ==
  /\ monitor.status = "constructed"
  /\ AnalyticsReturned /\ mout.updated
  /\ \E a, b \in DictKeys(InitialData) :
       /\ a # b
       /\ DictGet(monitor.data, a) # DictGet(InitialData, a)
       /\ DictGet(monitor.data, b) # DictGet(InitialData, b)
       /\ a \in DictKeys(mout.monitor_vars)
       /\ b \notin DictKeys(mout.monitor_vars)

\* the analytics specs of the monitor spec of the constructed Monitor
SpecAnalytics == AllAnalytics(mparams.monitor_spec.state_analytics)

\* self._processors[state_name][key] exists and is not None
HasProcessor(state_name, key) ==
  /\ DictHas(monitor.processors, state_name)
  /\ DictHas(DictGet(monitor.processors, state_name), key)
  /\ DictGet(DictGet(monitor.processors, state_name), key) # NoProcessor

\* a processor of the Monitor is None
SomeProcessorIsNone ==
  \E i \in 1..Len(monitor.processors) :
    \E j \in 1..Len(monitor.processors[i].v) :
      monitor.processors[i].v[j].v = NoProcessor

\* C29: in every successfully constructed Monitor every analytics key of the
\* monitor spec has a processor that is not None and an entry in
\* Monitor.data; an analytics spec of unsupported type makes the constructor
\* fail with ValueError, so no processor is None.
C29_EveryKeyProcessed ==
  /\ monitor.status = "constructed" =>
       /\ ~SomeProcessorIsNone
       /\ \A i \in 1..Len(SpecAnalytics) :
            /\ DictHas(monitor.data, SpecAnalytics[i].spec.key)
            /\ HasProcessor(SpecAnalytics[i].state_name,
                            SpecAnalytics[i].spec.key)
  /\ monitor.status # "none" /\ ~SpecSupported =>
       monitor.status \in {"ValueError", "IndexError"}

\* states without the humidity and the thermodynamic density
DryStates == Restrict(flow, {"q_t", "rho_thermal"})

\* C30: with a thermodynamics model that is not water,
\* PotentialTemperature.source_fn returns the zero field of the shape of phi
\* whatever include_radiation, include_subsidence and the scalar name are;
\* its cloud handle is None and it calls no collaborator; it looks up neither
\* 'q_t' nor 'rho_thermal' in states, so it returns the same without them.
C30_NonWaterZero ==
  \A sl \in Slots :
    Returned(sl, "PotentialTemperature") /\ obj[sl].model # "water" =>
      /\ IsZeroField(out[sl].value)
      /\ SameShape(out[sl].value, phi)
      /\ obj[sl].cloud = "None"
      /\ out[sl].calls = <<>>
      /\ out[sl].reads \cap {"q_t", "rho_thermal"} = {}
      /\ LET dry == PotentialTemperature_source_fn(obj[sl], phi, DryStates,
                                                   helper)
         IN dry.status = "returned" /\ dry.value = out[sl].value

\* theta_li with both terms configured on a non-water model and a non-zero
\* phi
C30_Witness ==
  \E sl \in Slots :
    /\ Returned(sl, "PotentialTemperature") /\ obj[sl].model # "water"
    /\ obj[sl].scalar_name = "theta_li"
    /\ obj[sl].include_radiation /\ obj[sl].include_subsidence
    /\ ~IsZeroField(phi)
    /\ IsZeroField(out[sl].value)
====
